---- MODULE Spec2Model ----
(***************************************************************************)
(* Model of the measure-script engine of FROG                              *)
(* (frog/gui/measure_script/script.py): Script, ScriptIterator and the     *)
(* ScriptRunner state machine, together with the two devices it talks to   *)
(* over the message bus (stepper motor and spectrometer).                  *)
(*                                                                         *)
(* The message bus is synchronous: a sendMessage runs the subscribed       *)
(* listeners before it returns, and the state machine runs every event to  *)
(* completion.  Each action below is therefore one complete handler: the   *)
(* device's notification (or the user's command) together with everything  *)
(* the runner does in response.                                            *)
(***************************************************************************)
EXTENDS Integers, Sequences, FiniteSets, TLC

VARIABLES
    script,                     \* Script.repeats, Script.sequence
    current_state,              \* ScriptRunner.current_state
    paused,                     \* ScriptRunner.paused
    measurement_iter,           \* ScriptRunner.measurement_iter (a ScriptIterator)
    current_measurement,        \* ScriptRunner.current_measurement
    current_measurement_count,  \* ScriptRunner.current_measurement_count
    subscriptions,              \* listeners of the runner attached to the bus
    moveQueue,                  \* stepper motor: move requests not yet resolved
    captureRequests,            \* spectrometer: capture requests not yet resolved
    spectrometerStatus,         \* spectrometer: last status it reported
    out,                        \* what the last handler did on the bus, in order
    hist,                       \* the states entered so far, in order
    nMoves,                     \* move requests dispatched by on_enter_moving
                                \* (counted in an undisturbed run, else 0)
    nNadir,                     \* move requests dispatched by on_enter_not_running
    nCaptures,                  \* capture requests dispatched
                                \* (counted in an undisturbed run, else 0)
    nBegin,                     \* "measure_script.begin" broadcasts
    nEnd,                       \* "measure_script.end" broadcasts
    reqSinceEntry,              \* capture requests since waiting_to_measure was entered
    duplicates,                 \* capture requests dispatched while one was unresolved
    disturbed,                  \* a pause, unpause, abort or device error has occurred
    yielded,                    \* Measurements the iterator has yielded so far
    exhausted,                  \* the iterator has signalled exhaustion
    others,                     \* runners Script.run replaced that are still alive
    document,                   \* what yaml.safe_load makes of the script file
    outcome,                    \* how parse_script ended for the document
    edited,                     \* ScriptEditDialog: the repeats and the sequence
    devices,                    \* the Device object of each instance
    _active_devices,            \* ActiveDeviceManager._active_devices
    sent,                       \* calls and messages of the last device step
    notes,                      \* last lifecycle notification of each instance
    http,                       \* HTTPDevice: the request being made
    st10                        \* ST10Controller and its _SerialReader

vars == <<script, current_state, paused, measurement_iter, current_measurement,
          current_measurement_count, subscriptions, moveQueue, captureRequests,
          spectrometerStatus, out, hist, nMoves, nNadir, nCaptures, nBegin,
          nEnd, reqSinceEntry, duplicates, disturbed, yielded, exhausted,
          others, document, outcome, edited,
          devices, _active_devices, sent, notes, http, st10>>

(* The variables of the ScriptRunner, its devices and its observation *)
runnerVars ==
    <<current_state, paused, measurement_iter, current_measurement,
      current_measurement_count, subscriptions, moveQueue, captureRequests,
      spectrometerStatus, out, hist, nMoves, nNadir, nCaptures, nBegin, nEnd,
      reqSinceEntry, duplicates, disturbed, yielded, exhausted, others>>

(* The variables of the other components *)
restVars == <<edited, devices, _active_devices, sent, notes, http, st10>>

----------------------------------------------------------------------------
(* Bounds of the model *)

(* MaxSteps bounds the captures of a complete run of a script,            *)
(* repeats * (sum of the measurement counts); MaxSeqLen its number of      *)
(* steps; MaxDuplicates the capture requests a run may dispatch while      *)
(* another one is unresolved.                                              *)
MaxSteps == 6
MaxSeqLen == 2
MaxDuplicates == 1

(* The captures of a complete run where termination is checked *)
MaxLiveSteps == 2

(* Angles a script step may name: a preset name or a number of degrees *)
Angles == {"nadir", "90.0"}

(* The steps of the scripts of the model: to keep their number small the   *)
(* angle of a step is "90.0" for an odd count and "nadir" for an even one  *)
Measurement ==
    {m \in [angle : Angles, measurements : 1..MaxSteps] :
        m.angle = IF m.measurements % 2 = 1 THEN "90.0" ELSE "nadir"}

(* current_measurement before the first measurement has been loaded *)
NoMeasurement == [angle |-> "unset", measurements |-> 0]

(* current_measurement_count before the first measurement has been loaded *)
NoCount == -1

RECURSIVE SeqsUpTo(_, _)
SeqsUpTo(S, n) ==
    IF n = 0 THEN {<<>>}
    ELSE LET shorter == SeqsUpTo(S, n - 1)
         IN shorter \cup {Append(s, x) : s \in {t \in shorter : Len(t) = n - 1}, x \in S}

Min(a, b) == IF a < b THEN a ELSE b

RECURSIVE SumCounts(_)
SumCounts(s) == IF s = <<>> THEN 0 ELSE Head(s).measurements + SumCounts(Tail(s))

(* The scripts parse_script accepts: repeats > 0, a non-empty sequence of  *)
(* steps with measurements > 0                                             *)
ValidScripts ==
    {scr \in [repeats : 1..MaxSteps,
              sequence : {s \in SeqsUpTo(Measurement, MaxSeqLen) : Len(s) > 0}] :
        scr.repeats * SumCounts(scr.sequence) <= MaxSteps}

----------------------------------------------------------------------------
(* parse_script.  A document is what yaml.safe_load returns for the text    *)
(* of the file: a mapping, or nothing (an empty document), a list or a      *)
(* scalar; for malformed text yaml.safe_load raises YAMLError.  A value of  *)
(* the document has a type t, and the number n or the text s it stands for. *)

(* MaxDocLen bounds the steps of the sequence of a document *)
MaxDocLen == 2

CURRENT_SCRIPT_VERSION == 1

ANGLE_PRESETS == {"zenith", "nadir", "hot_bb", "cold_bb", "home", "park"}

Absent == [t |-> "absent", n |-> 0, s |-> ""]
IntValue(n) == [t |-> "int", n |-> n, s |-> ""]
StrValue(s) == [t |-> "str", n |-> 0, s |-> s]
FloatValue(n, s) == [t |-> "float", n |-> n, s |-> s]

(* The values a document of the model gives to its keys *)
VersionValues == {Absent, IntValue(0), IntValue(1), IntValue(2), StrValue("1")}
RepeatsValues == {Absent, IntValue(-1), IntValue(0), IntValue(1), IntValue(2),
                  StrValue("2")}
AngleValues == {FloatValue(90, "90.0"), FloatValue(360, "360.0"), IntValue(90),
                StrValue("nadir"), StrValue("bogus")}
CountValues == {IntValue(0), IntValue(1), StrValue("1")}
StepValues == [angle : AngleValues, measurements : CountValues]

NoItems == [t |-> "absent", items |-> <<>>]
SequenceValues ==
    {NoItems, [t |-> "str", items |-> <<>>]}
    \cup {[t |-> "list", items |-> q] : q \in SeqsUpTo(StepValues, MaxDocLen)}

(* The documents of the model: mappings with or without each of the three   *)
(* keys and with or without a key the schema does not know, and the         *)
(* documents that are no mapping; has_version says whether the text (of a   *)
(* scalar) or an item (of a list) is "version"                              *)
Mappings ==
    [kind : {"map"}, has_version : {FALSE}, version : VersionValues,
     repeats : RepeatsValues, sequence : SequenceValues, extra : BOOLEAN]

NoMapping(kind, has_version) ==
    [kind |-> kind, has_version |-> has_version, version |-> Absent,
     repeats |-> Absent, sequence |-> NoItems, extra |-> FALSE]

Documents ==
    Mappings
    \cup {NoMapping(k, FALSE) : k \in {"malformed", "null", "int", "str", "list"}}
    \cup {NoMapping(k, TRUE) : k \in {"str", "list"}}

(* No file: a Script made in memory *)
NoDocument == NoMapping("none", FALSE)

(* No Script *)
NoScript == [repeats |-> 0, sequence |-> <<>>]

(* No script is being edited *)
NoEdit == edited = [repeats |-> IntValue(0), sequence |-> <<>>]

(* DeviceInstanceRef of the devices that can be opened *)
Instances == {"spectrometer", "temperature_controller.hot_bb"}

(* No device type *)
NoType ==
    [class_name |-> "", instance |-> "", async_open |-> FALSE,
     handlers |-> <<>>]

(* No Device object has been constructed for an instance *)
NoDeviceObject ==
    [type |-> NoType, phase |-> "none", _is_open |-> FALSE,
     _subscriptions |-> <<>>, attached |-> {}, connected |-> FALSE,
     pending |-> FALSE, nOpened |-> 0]

(* An instance ActiveDeviceManager does not track *)
NotActive == [class_name |-> "", state |-> "DISCONNECTED"]

(* No device has been opened *)
NoDevices ==
    /\ devices = [i \in Instances |-> NoDeviceObject]
    /\ _active_devices = [i \in Instances |-> NotActive]
    /\ sent = <<>>
    /\ notes = [i \in Instances |-> "none"]

(* No HTTP request has been made *)
NoHTTP ==
    http = [_retries |-> 0, n |-> 0, awaiting |-> FALSE,
            retries_remaining |-> 0, attempts |-> 0, callbacks |-> 0,
            errors |-> <<>>, raised |-> "none", reply |-> "none"]

(* No ST10Controller has been constructed *)
NoST10 ==
    st10 = [phase |-> "none", _is_open |-> FALSE, slot |-> "none",
            timer |-> "inactive", wire |-> <<>>, out_queue |-> <<>>,
            signals |-> 0, written |-> 0, timed_out |-> FALSE,
            reads |-> <<>>, errors |-> <<>>, raised |-> "none",
            move_end |-> FALSE]

(* The other components are not there *)
NoRest == NoEdit /\ NoDevices /\ NoHTTP /\ NoST10

(* valid_float = And(float, lambda f: 0.0 <= f < 360.0) *)
valid_float(v) == v.t = "float" /\ 0 <= v.n /\ v.n < 360

(* valid_preset = And(str, lambda s: s in ANGLE_PRESETS) *)
valid_preset(v) == v.t = "str" /\ v.s \in ANGLE_PRESETS

(* measurements_type that accepts zero *)
measurements_type_accepts_zero(v) == v.t = "int" /\ v.n >= 0

(* measurements_type = And(int, lambda x: x > 0) *)
measurements_type(v) == v.t = "int" /\ v.n > 0

(* nonempty_list = And(list, lambda x: x) *)
nonempty_list(q) == q.t = "list" /\ q.items # <<>>

(* The schema of one step: {"angle": Or(valid_float, valid_preset),         *)
(* "measurements": measurements_type}                                       *)
step_schema(st) ==
    /\ valid_float(st.angle) \/ valid_preset(st.angle)
    /\ measurements_type(st.measurements)

(* Const(CURRENT_SCRIPT_VERSION): the value compares equal to the constant *)
version_schema(v) == v.t = "int" /\ v.n = CURRENT_SCRIPT_VERSION

(* schema.validate(output) does not raise SchemaError *)
schema_validate(d) ==
    /\ d.kind = "map"
    /\ ~d.extra
    /\ version_schema(d.version)
    /\ measurements_type(d.repeats)
    /\ nonempty_list(d.sequence)
    /\ \A i \in 1..Len(d.sequence.items) : step_schema(d.sequence.items[i])

(* The validated output as Python values *)
validated(d) ==
    [version |-> d.version.n,
     repeats |-> d.repeats.n,
     sequence |->
         [i \in 1..Len(d.sequence.items) |->
             [angle |-> d.sequence.items[i].angle.s,
              measurements |-> d.sequence.items[i].measurements.n]]]

(* output.pop("version") *)
pop_version(output) == [k \in DOMAIN output \ {"version"} |-> output[k]]

(* The default for "version" without the version of the old files *)
default_version_missing(d) == d

(* if "version" not in output: output["version"] = 1 *)
default_version(d) ==
    IF d.version.t = "absent" THEN [d EXCEPT !.version = IntValue(1)] ELSE d

(* parse_script: how it ends, and what it returns if it returns *)
parse_script(d) ==
    CASE d.kind = "malformed" ->
             \* yaml.safe_load raises YAMLError
             [outcome |-> "ParseError", result |-> NoScript]
      [] d.kind \in {"null", "int"} ->
             \* "version" not in output: the value is not iterable
             [outcome |-> "TypeError", result |-> NoScript]
      [] d.kind \in {"str", "list"} ->
             IF d.has_version
             THEN \* schema.validate of a value that is no mapping
                  [outcome |-> "ParseError", result |-> NoScript]
             ELSE \* output["version"] = 1 on a str or a list
                  [outcome |-> "TypeError", result |-> NoScript]
      [] OTHER ->
             LET output == default_version(d)
             IN IF schema_validate(output)
                THEN [outcome |-> "ok", result |-> pop_version(validated(output))]
                ELSE [outcome |-> "ParseError", result |-> NoScript]

----------------------------------------------------------------------------
(* ScriptIterator *)

(* ScriptIterator.__init__ *)
ScriptIterator_init == [pos |-> 0, current_repeat |-> 0]

(* __next__ that tests the repeat counter before incrementing it *)
RECURSIVE ScriptIterator_next_late_stop(_, _)
ScriptIterator_next_late_stop(scr, it) ==
    IF it.pos < Len(scr.sequence)
    THEN [ok |-> TRUE, value |-> scr.sequence[it.pos + 1],
          it |-> [it EXCEPT !.pos = @ + 1]]
    ELSE LET cr == Min(scr.repeats, it.current_repeat + 1)
             it1 == [it EXCEPT !.current_repeat = cr]
         IN IF it.current_repeat = scr.repeats
            THEN [ok |-> FALSE, value |-> NoMeasurement, it |-> it1]
            ELSE ScriptIterator_next_late_stop(scr, [it1 EXCEPT !.pos = 0])

(* __next__ that rewinds the iterator when it signals exhaustion *)
RECURSIVE ScriptIterator_next_rewinds(_, _)
ScriptIterator_next_rewinds(scr, it) ==
    IF it.pos < Len(scr.sequence)
    THEN [ok |-> TRUE, value |-> scr.sequence[it.pos + 1],
          it |-> [it EXCEPT !.pos = @ + 1]]
    ELSE LET cr == Min(scr.repeats, it.current_repeat + 1)
             it1 == [it EXCEPT !.current_repeat = cr]
         IN IF cr = scr.repeats
            THEN [ok |-> FALSE, value |-> NoMeasurement, it |-> ScriptIterator_init]
            ELSE ScriptIterator_next_rewinds(scr, [it1 EXCEPT !.pos = 0])

(* ScriptIterator.__next__: pos is the position of _sequence_iter *)
RECURSIVE ScriptIterator_next(_, _)
ScriptIterator_next(scr, it) ==
    IF it.pos < Len(scr.sequence)
    THEN [ok |-> TRUE, value |-> scr.sequence[it.pos + 1],
          it |-> [it EXCEPT !.pos = @ + 1]]
    ELSE LET cr == Min(scr.repeats, it.current_repeat + 1)
             it1 == [it EXCEPT !.current_repeat = cr]
         IN IF cr = scr.repeats
            THEN [ok |-> FALSE, value |-> NoMeasurement, it |-> it1]
            ELSE ScriptIterator_next(scr, [it1 EXCEPT !.pos = 0])

----------------------------------------------------------------------------
(* The message bus.  A handler is a function on the record w of all the    *)
(* variables; Commit(w) makes w the next state.                            *)

World ==
    [script |-> script, current_state |-> current_state, paused |-> paused,
     measurement_iter |-> measurement_iter,
     current_measurement |-> current_measurement,
     current_measurement_count |-> current_measurement_count,
     subscriptions |-> subscriptions, moveQueue |-> moveQueue,
     captureRequests |-> captureRequests,
     spectrometerStatus |-> spectrometerStatus,
     out |-> <<>>, hist |-> hist,
     nMoves |-> nMoves, nNadir |-> nNadir, nCaptures |-> nCaptures,
     nBegin |-> nBegin, nEnd |-> nEnd, reqSinceEntry |-> reqSinceEntry,
     duplicates |-> duplicates,
     disturbed |-> disturbed, yielded |-> yielded, exhausted |-> exhausted,
     others |-> others]

Commit(w) ==
    /\ script' = w.script
    /\ current_state' = w.current_state
    /\ paused' = w.paused
    /\ measurement_iter' = w.measurement_iter
    /\ current_measurement' = w.current_measurement
    /\ current_measurement_count' = w.current_measurement_count
    /\ subscriptions' = w.subscriptions
    /\ moveQueue' = w.moveQueue
    /\ captureRequests' = w.captureRequests
    /\ spectrometerStatus' = w.spectrometerStatus
    /\ out' = w.out
    /\ hist' = w.hist
    /\ nMoves' = IF w.disturbed THEN 0 ELSE w.nMoves
    /\ nNadir' = w.nNadir
    /\ nCaptures' = IF w.disturbed THEN 0 ELSE w.nCaptures
    /\ nBegin' = w.nBegin
    /\ nEnd' = w.nEnd
    /\ reqSinceEntry' = w.reqSinceEntry
    /\ duplicates' = w.duplicates
    /\ disturbed' = w.disturbed
    /\ yielded' = w.yielded
    /\ exhausted' = w.exhausted
    /\ others' = w.others
    /\ UNCHANGED <<document, outcome, restVars>>

MOVE_BEGIN == "device.stepper_motor.move.begin"
START_MEASURING == "device.spectrometer.start_measuring"

(* pub.subscribe(listener, topic): each listener has one topic *)
subscribe(w, listener) ==
    [w EXCEPT !.subscriptions = @ \cup {listener},
              !.out = Append(@, <<"subscribe", listener, "">>)]

(* pub.unsubscribe(listener, topic) *)
unsubscribe(w, listener) ==
    [w EXCEPT !.subscriptions = @ \ {listener},
              !.out = Append(@, <<"unsubscribe", listener, "">>)]

(* pub.sendMessage of a lifecycle broadcast *)
sendMessage(w, topic) == [w EXCEPT !.out = Append(@, <<"send", topic, "">>)]

(* pub.sendMessage("device.stepper_motor.move.begin", target=target) *)
sendMoveBegin(w, target) ==
    [w EXCEPT !.moveQueue = Append(@, target),
              !.out = Append(@, <<"send", MOVE_BEGIN, target>>)]

(* pub.sendMessage("device.spectrometer.start_measuring") *)
sendStartMeasuring(w) ==
    [w EXCEPT !.captureRequests = @ + 1,
              !.out = Append(@, <<"send", START_MEASURING, "">>)]

(* logging.info(text) *)
logging_info(w, text) == [w EXCEPT !.out = Append(@, <<"log", text, "">>)]

(* The state machine sets current_state to the target of a transition *)
setState(w, target) ==
    [w EXCEPT !.current_state = target, !.hist = Append(@, target)]

(* An event sent to the state machine in a state that has no such transition *)
TransitionNotAllowed(w) ==
    [w EXCEPT !.out = Append(@, <<"raise", "TransitionNotAllowed", "">>)]

----------------------------------------------------------------------------
(* ScriptRunner: callbacks and transitions of the state machine *)

LISTENERS_DEVICE == {"finish_moving", "_on_stepper_motor_error", "_on_spectrometer_error"}

(* on_enter_not_running with the end broadcast made before the nadir move *)
on_enter_not_running_end_first(w, event) ==
    IF event = "__initial__"
    THEN w
    ELSE LET w1 == unsubscribe(w, "finish_moving")
             w2 == unsubscribe(w1, "_on_stepper_motor_error")
             w3 == unsubscribe(w2, "_on_spectrometer_error")
             w4 == [sendMessage(w3, "measure_script.end") EXCEPT !.nEnd = @ + 1]
         IN [sendMoveBegin(w4, "nadir") EXCEPT !.nNadir = @ + 1]


(* on_enter_not_running that treats the initial entry like any other *)
on_enter_not_running_initial_too(w, event) ==
    LET w1 == unsubscribe(w, "finish_moving")
        w2 == unsubscribe(w1, "_on_stepper_motor_error")
        w3 == unsubscribe(w2, "_on_spectrometer_error")
        w4 == [sendMoveBegin(w3, "nadir") EXCEPT !.nNadir = @ + 1]
    IN [sendMessage(w4, "measure_script.end") EXCEPT !.nEnd = @ + 1]

(* ScriptRunner.on_enter_not_running *)
on_enter_not_running(w, event) ==
    IF event = "__initial__"
    THEN w
    ELSE LET w1 == unsubscribe(w, "finish_moving")
             w2 == unsubscribe(w1, "_on_stepper_motor_error")
             w3 == unsubscribe(w2, "_on_spectrometer_error")
             w4 == [sendMoveBegin(w3, "nadir") EXCEPT !.nNadir = @ + 1]
         IN [sendMessage(w4, "measure_script.end") EXCEPT !.nEnd = @ + 1]

(* on_exit_not_running that leaves out the spectrometer error listener *)
on_exit_not_running_no_spectrometer(w) ==
    subscribe(subscribe(w, "finish_moving"), "_on_stepper_motor_error")

(* ScriptRunner.on_exit_not_running *)
on_exit_not_running(w) ==
    LET w1 == subscribe(w, "finish_moving")
        w2 == subscribe(w1, "_on_stepper_motor_error")
    IN subscribe(w2, "_on_spectrometer_error")

(* ScriptRunner.before_start_moving *)
before_start_moving(w) ==
    [sendMessage(w, "measure_script.begin") EXCEPT !.nBegin = @ + 1]

(* ScriptRunner.on_exit_measuring *)
on_exit_measuring(w) == unsubscribe(w, "_measuring_end")

(* ScriptRunner.on_exit_waiting_to_measure *)
on_exit_waiting_to_measure(w) == unsubscribe(w, "_measuring_start")

(* finish = moving.to(not_running) *)
finish(w) ==
    IF w.current_state # "moving" THEN TransitionNotAllowed(w)
    ELSE on_enter_not_running(setState(w, "not_running"), "finish")

(* cancel_move = moving.to(not_running) *)
cancel_move(w) ==
    IF w.current_state # "moving" THEN TransitionNotAllowed(w)
    ELSE on_enter_not_running(setState(w, "not_running"), "cancel_move")

(* cancel_measuring = measuring.to(not_running) *)
cancel_measuring(w) ==
    IF w.current_state # "measuring" THEN TransitionNotAllowed(w)
    ELSE on_enter_not_running(setState(on_exit_measuring(w), "not_running"),
                              "cancel_measuring")

(* cancel_waiting_to_move = waiting_to_move.to(not_running) *)
cancel_waiting_to_move(w) ==
    IF w.current_state # "waiting_to_move" THEN TransitionNotAllowed(w)
    ELSE on_enter_not_running(setState(w, "not_running"), "cancel_waiting_to_move")

(* cancel_waiting_to_measure = waiting_to_measure.to(not_running) *)
cancel_waiting_to_measure(w) ==
    IF w.current_state # "waiting_to_measure" THEN TransitionNotAllowed(w)
    ELSE on_enter_not_running(
             setState(on_exit_waiting_to_measure(w), "not_running"),
             "cancel_waiting_to_measure")

(* _load_next_measurement that keeps the count of the previous measurement *)
_load_next_measurement_keeps_count(w) ==
    LET n == ScriptIterator_next(w.script, w.measurement_iter)
    IN IF n.ok
       THEN [ok |-> TRUE,
             w |-> [w EXCEPT !.measurement_iter = n.it,
                             !.current_measurement = n.value,
                             !.current_measurement_count =
                                 IF @ = NoCount THEN 0 ELSE @,
                             !.yielded = @ + 1]]
       ELSE [ok |-> FALSE,
             w |-> [w EXCEPT !.measurement_iter = n.it, !.exhausted = TRUE]]

(* ScriptRunner._load_next_measurement *)
_load_next_measurement(w) ==
    LET n == ScriptIterator_next(w.script, w.measurement_iter)
    IN IF n.ok
       THEN [ok |-> TRUE,
             w |-> [w EXCEPT !.measurement_iter = n.it,
                             !.current_measurement = n.value,
                             !.current_measurement_count = 0,
                             !.yielded = @ + 1]]
       ELSE [ok |-> FALSE,
             w |-> [w EXCEPT !.measurement_iter = n.it, !.exhausted = TRUE]]

(* ScriptRunner.on_enter_moving *)
on_enter_moving(w) ==
    LET l == _load_next_measurement(w)
    IN IF ~l.ok
       THEN finish(l.w)
       ELSE LET w1 == sendMessage(l.w, "measure_script.start_moving")
            IN [sendMoveBegin(w1, w1.current_measurement.angle)
                    EXCEPT !.nMoves = @ + 1]

(* finish_waiting_for_move = waiting_to_move.to(moving) *)
finish_waiting_for_move(w) ==
    IF w.current_state # "waiting_to_move" THEN TransitionNotAllowed(w)
    ELSE on_enter_moving(setState(w, "moving"))

(* on_enter_waiting_to_move that does not look at the paused flag *)
on_enter_waiting_to_move_ignores_pause(w) == finish_waiting_for_move(w)

(* ScriptRunner.on_enter_waiting_to_move *)
on_enter_waiting_to_move(w) ==
    IF ~w.paused THEN finish_waiting_for_move(w) ELSE w

(* start_next_move that goes to moving without the waiting state *)
start_next_move_skips_wait(w) ==
    IF w.current_state # "measuring" THEN TransitionNotAllowed(w)
    ELSE on_enter_moving(setState(on_exit_measuring(w), "moving"))

(* start_next_move = measuring.to(waiting_to_move) *)
start_next_move(w) ==
    IF w.current_state # "measuring" THEN TransitionNotAllowed(w)
    ELSE on_enter_waiting_to_move(setState(on_exit_measuring(w), "waiting_to_move"))

(* ScriptRunner._request_measurement *)
_request_measurement(w) ==
    LET w1 == sendMessage(w, "measure_script.start_measuring")
    IN [sendStartMeasuring(w1) EXCEPT
            !.nCaptures = @ + 1,
            !.reqSinceEntry = @ + 1,
            !.duplicates = IF w1.captureRequests > 0 THEN @ + 1 ELSE @]

(* on_enter_waiting_to_measure that never requests the capture *)
on_enter_waiting_to_measure_no_request(w) ==
    subscribe([w EXCEPT !.reqSinceEntry = 0], "_measuring_start")

(* ScriptRunner.on_enter_waiting_to_measure *)
on_enter_waiting_to_measure(w) ==
    LET w1 == subscribe([w EXCEPT !.reqSinceEntry = 0], "_measuring_start")
    IN IF ~w1.paused THEN _request_measurement(w1) ELSE w1

(* finish_moving = moving.to(waiting_to_measure) *)
finish_moving(w) ==
    IF w.current_state # "moving" THEN TransitionNotAllowed(w)
    ELSE on_enter_waiting_to_measure(setState(w, "waiting_to_measure"))

(* repeat_measuring = measuring.to(waiting_to_measure) *)
repeat_measuring(w) ==
    IF w.current_state # "measuring" THEN TransitionNotAllowed(w)
    ELSE on_enter_waiting_to_measure(
             setState(on_exit_measuring(w), "waiting_to_measure"))

(* start_measuring = waiting_to_measure.to(measuring) *)
start_measuring(w) ==
    IF w.current_state # "waiting_to_measure" THEN TransitionNotAllowed(w)
    ELSE setState(on_exit_waiting_to_measure(w), "measuring")

(* start_moving = not_running.to(moving) *)
start_moving(w) ==
    IF w.current_state # "not_running" THEN TransitionNotAllowed(w)
    ELSE on_enter_moving(setState(on_exit_not_running(before_start_moving(w)), "moving"))

(* ScriptRunner._measuring_start *)
_measuring_start(w) ==
    LET w1 == unsubscribe(w, "_measuring_start")
    IN IF w1.current_state # "waiting_to_measure"
       THEN start_measuring(w1)
       ELSE subscribe(start_measuring(w1), "_measuring_end")

(* _measuring_end that never repeats a measurement *)
_measuring_end_no_repeat(w) ==
    start_next_move([w EXCEPT !.current_measurement_count = @ + 1])

(* _measuring_end that does not count the capture *)
_measuring_end_no_increment(w) ==
    IF w.current_measurement_count = w.current_measurement.measurements
    THEN start_next_move(w)
    ELSE repeat_measuring(w)

(* ScriptRunner._measuring_end *)
_measuring_end(w) ==
    LET w1 == [w EXCEPT !.current_measurement_count = @ + 1]
    IN IF w1.current_measurement_count = w1.current_measurement.measurements
       THEN start_next_move(w1)
       ELSE repeat_measuring(w1)

(* abort without the case for waiting_to_move *)
abort_no_waiting_to_move(w) ==
    LET w1 == CASE w.current_state = "moving" -> cancel_move(w)
                [] w.current_state = "measuring" -> cancel_measuring(w)
                [] w.current_state = "waiting_to_measure" ->
                       cancel_waiting_to_measure(w)
                [] OTHER -> w
    IN logging_info(w1, "Aborting measure script")

(* abort that cleans up in every state, also in not_running *)
abort_always_cleans(w) ==
    LET w1 == CASE w.current_state = "moving" -> cancel_move(w)
                [] w.current_state = "measuring" -> cancel_measuring(w)
                [] w.current_state = "waiting_to_measure" ->
                       cancel_waiting_to_measure(w)
                [] w.current_state = "waiting_to_move" -> cancel_waiting_to_move(w)
                [] OTHER -> on_enter_not_running(w, "abort")
    IN logging_info(w1, "Aborting measure script")

(* ScriptRunner.abort *)
abort(w) ==
    LET w1 == CASE w.current_state = "moving" -> cancel_move(w)
                [] w.current_state = "measuring" -> cancel_measuring(w)
                [] w.current_state = "waiting_to_measure" ->
                       cancel_waiting_to_measure(w)
                [] w.current_state = "waiting_to_move" -> cancel_waiting_to_move(w)
                [] OTHER -> w
    IN logging_info(w1, "Aborting measure script")

(* pause that also restarts the count of captures at the current angle *)
pause_restarts_count(w) ==
    [w EXCEPT !.paused = TRUE,
              !.current_measurement_count = IF @ = NoCount THEN @ ELSE 0]

(* ScriptRunner.pause *)
pause(w) == [w EXCEPT !.paused = TRUE]

(* unpause that also starts the next move when the runner is moving *)
unpause_moves_again(w) ==
    LET w1 == [w EXCEPT !.paused = FALSE]
    IN CASE w1.current_state = "waiting_to_move" -> finish_waiting_for_move(w1)
         [] w1.current_state = "moving" -> on_enter_moving(w1)
         [] w1.current_state = "waiting_to_measure" -> _request_measurement(w1)
         [] OTHER -> w1

(* unpause that leaves the paused flag as it is *)
unpause_keeps_flag(w) ==
    CASE w.current_state = "waiting_to_move" -> finish_waiting_for_move(w)
      [] w.current_state = "waiting_to_measure" -> _request_measurement(w)
      [] OTHER -> w

(* unpause that treats the capture as started when the runner waits for it *)
unpause_starts_measuring(w) ==
    LET w1 == [w EXCEPT !.paused = FALSE]
    IN CASE w1.current_state = "waiting_to_move" -> finish_waiting_for_move(w1)
         [] w1.current_state = "waiting_to_measure" ->
                start_measuring(_request_measurement(w1))
         [] OTHER -> w1

(* ScriptRunner.unpause *)
unpause(w) ==
    LET w1 == [w EXCEPT !.paused = FALSE]
    IN CASE w1.current_state = "waiting_to_move" -> finish_waiting_for_move(w1)
         [] w1.current_state = "waiting_to_measure" -> _request_measurement(w1)
         [] OTHER -> w1

(* _on_stepper_motor_error that only logs the error *)
_on_stepper_motor_error_ignored(w) == w

(* ScriptRunner._on_stepper_motor_error *)
_on_stepper_motor_error(w) == abort(w)

(* _on_spectrometer_error that shows the message before it aborts *)
_on_spectrometer_error_message_first(w) ==
    abort([w EXCEPT !.out = Append(@, <<"show_error_message", "", "">>)])

(* ScriptRunner._on_spectrometer_error *)
_on_spectrometer_error(w) ==
    LET w1 == abort(w)
    IN [w1 EXCEPT !.out = Append(@, <<"show_error_message", "", "">>)]

(* ScriptRunner.__init__ for a Script scr: the machine enters its initial state *)
ScriptRunner_init(scr) ==
    on_enter_not_running(
        [script |-> scr, current_state |-> "not_running", paused |-> FALSE,
         measurement_iter |-> ScriptIterator_init,
         current_measurement |-> NoMeasurement,
         current_measurement_count |-> NoCount,
         subscriptions |-> {}, moveQueue |-> <<>>, captureRequests |-> 0,
         spectrometerStatus |-> "connected",
         out |-> <<>>, hist |-> <<"not_running">>,
         nMoves |-> 0, nNadir |-> 0, nCaptures |-> 0, nBegin |-> 0, nEnd |-> 0,
         reqSinceEntry |-> 0, duplicates |-> 0, disturbed |-> FALSE, yielded |-> 0,
         exhausted |-> FALSE, others |-> <<>>],
        "__initial__")

----------------------------------------------------------------------------
(* Initial state: a valid Script and the ScriptRunner constructed for it *)

Init ==
    \E scr \in ValidScripts :
        LET w == ScriptRunner_init(scr)
        IN /\ script = w.script
           /\ current_state = w.current_state
           /\ paused = w.paused
           /\ measurement_iter = w.measurement_iter
           /\ current_measurement = w.current_measurement
           /\ current_measurement_count = w.current_measurement_count
           /\ subscriptions = w.subscriptions
           /\ moveQueue = w.moveQueue
           /\ captureRequests = w.captureRequests
           /\ spectrometerStatus = w.spectrometerStatus
           /\ out = w.out
           /\ hist = w.hist
           /\ nMoves = w.nMoves
           /\ nNadir = w.nNadir
           /\ nCaptures = w.nCaptures
           /\ nBegin = w.nBegin
           /\ nEnd = w.nEnd
           /\ reqSinceEntry = w.reqSinceEntry
           /\ duplicates = w.duplicates
           /\ disturbed = w.disturbed
           /\ yielded = w.yielded
           /\ exhausted = w.exhausted
           /\ others = w.others
           /\ document = NoDocument
           /\ outcome = "none"
           /\ NoRest

(* A command of the user or a device error: the run is no longer undisturbed *)
Disturbed == [World EXCEPT !.disturbed = TRUE]

(* Script.run: the runner is started once, right after its construction *)
StartMoving ==
    /\ current_state = "not_running"
    /\ nBegin = 0
    /\ Commit(start_moving(World))

(* "measure_script.abort" *)
Abort == Commit(abort(Disturbed))

(* "measure_script.pause" *)
Pause == Commit(pause(Disturbed))

(* "measure_script.unpause" *)
Unpause ==
    /\ (current_state = "waiting_to_measure" /\ captureRequests > 0)
           => duplicates < MaxDuplicates
    /\ Commit(unpause(Disturbed))

(* The stepper motor completes its oldest move: "device.stepper_motor.move.end" *)
MoveEnd ==
    /\ moveQueue # <<>>
    /\ LET w == [World EXCEPT !.moveQueue = Tail(@)]
       IN Commit(IF "finish_moving" \in w.subscriptions THEN finish_moving(w) ELSE w)

(* The stepper motor reports an error: "device.error.stepper_motor" *)
StepperMotorError ==
    LET w == [Disturbed EXCEPT !.moveQueue = IF @ = <<>> THEN @ ELSE Tail(@)]
    IN Commit(IF "_on_stepper_motor_error" \in w.subscriptions
              THEN _on_stepper_motor_error(w) ELSE w)

(* The spectrometer begins a requested capture:                            *)
(* "device.spectrometer.status.measuring"                                  *)
StatusMeasuring ==
    /\ captureRequests > 0
    /\ spectrometerStatus = "connected"
    /\ LET w == [World EXCEPT !.spectrometerStatus = "measuring"]
       IN Commit(IF "_measuring_start" \in w.subscriptions
                 THEN _measuring_start(w) ELSE w)

(* The spectrometer completes the capture:                                 *)
(* "device.spectrometer.status.connected"                                  *)
StatusConnected ==
    /\ spectrometerStatus = "measuring"
    /\ LET w == [World EXCEPT
                     !.spectrometerStatus = "connected",
                     !.captureRequests = @ - 1]
       IN Commit(IF "_measuring_end" \in w.subscriptions
                 THEN _measuring_end(w) ELSE w)

(* The spectrometer reports an error: "device.error.spectrometer" *)
SpectrometerError ==
    LET w == [Disturbed EXCEPT
                  !.spectrometerStatus = "connected",
                  !.captureRequests = 0]
    IN Commit(IF "_on_spectrometer_error" \in w.subscriptions
              THEN _on_spectrometer_error(w) ELSE w)

(* next(measurement_iter) on the iterator of a runner that is not started *)
IterNext ==
    /\ nBegin = 0
    /\ Commit(_load_next_measurement(World).w)

(* The iterator on its own *)
SpecIter == Init /\ [][IterNext]_vars

Next ==
    \/ StartMoving
    \/ Abort
    \/ Pause
    \/ Unpause
    \/ MoveEnd
    \/ StepperMotorError
    \/ StatusMeasuring
    \/ StatusConnected
    \/ SpectrometerError

Spec == Init /\ [][Next]_vars

(* The devices answer: every move request is completed, every capture       *)
(* request is started and completed; the user unpauses a paused run         *)
InitLive ==
    /\ Init
    /\ script.repeats * SumCounts(script.sequence) <= MaxLiveSteps

SpecLive ==
    /\ InitLive
    /\ [][Next]_vars
    /\ WF_vars(MoveEnd)
    /\ WF_vars(StatusMeasuring)
    /\ WF_vars(StatusConnected)
    /\ WF_vars(paused /\ Unpause)

----------------------------------------------------------------------------
(* Script.run called more than once on the same Script.  Each call makes a  *)
(* new ScriptRunner and overwrites Script.runner; the runner it replaces    *)
(* is referenced by nothing but the (weak) subscriptions of the bus, and    *)
(* lives, subscribed, until the garbage collector frees it.                 *)

(* MaxRuns bounds the calls of Script.run, MaxRunSteps the captures of a    *)
(* complete run of the scripts that are run more than once.                 *)
MaxRuns == 2
MaxRunSteps == 2

(* The largest retry count of an HTTP request *)
MaxRetries == 3

(* The most handlers one device subscribes *)
MaxSubscriptions == 2

(* The most commands written to one ST10 controller once it is constructed *)
MaxCommands == 6

(* The attributes of one ScriptRunner *)
RunnerOf(w) ==
    [current_state |-> w.current_state, paused |-> w.paused,
     measurement_iter |-> w.measurement_iter,
     current_measurement |-> w.current_measurement,
     current_measurement_count |-> w.current_measurement_count,
     subscriptions |-> w.subscriptions]

(* w with the runner r in the place of its runner *)
WithRunner(w, r) ==
    [w EXCEPT !.current_state = r.current_state, !.paused = r.paused,
              !.measurement_iter = r.measurement_iter,
              !.current_measurement = r.current_measurement,
              !.current_measurement_count = r.current_measurement_count,
              !.subscriptions = r.subscriptions]

(* The listeners __init__ subscribes; they are never unsubscribed *)
LISTENERS_CONTROL == {"abort", "pause", "unpause"}

(* The bus calls a listener of the runner of w *)
call(w, listener) ==
    CASE listener = "abort" -> abort(w)
      [] listener = "pause" -> pause(w)
      [] listener = "unpause" -> unpause(w)
      [] listener = "finish_moving" -> finish_moving(w)
      [] listener = "_on_stepper_motor_error" -> _on_stepper_motor_error(w)
      [] listener = "_on_spectrometer_error" -> _on_spectrometer_error(w)
      [] listener = "_measuring_start" -> _measuring_start(w)
      [] listener = "_measuring_end" -> _measuring_end(w)

(* A listener has raised: sendMessage passes the exception on and calls no  *)
(* further listener                                                         *)
raised(w) == \E i \in 1..Len(w.out) : w.out[i][1] = "raise"

(* The bus calls the listener of the runner of w if it is subscribed *)
notify(w, listener) ==
    IF ~raised(w) /\ listener \in LISTENERS_CONTROL \cup w.subscriptions
    THEN call(w, listener)
    ELSE w

(* The bus calls the listener of the replaced runners from the i-th on, in  *)
(* the order of their subscription                                          *)
RECURSIVE notifyOthers(_, _, _)
notifyOthers(w, listener, i) ==
    IF i > Len(w.others) THEN w
    ELSE LET w1 == notify(WithRunner(w, w.others[i]), listener)
             w2 == [WithRunner(w1, RunnerOf(w)) EXCEPT !.others[i] = RunnerOf(w1)]
         IN notifyOthers(w2, listener, i + 1)

(* pub.sendMessage of a topic the listener is subscribed to: every runner   *)
(* alive is called, the oldest first                                        *)
notifyAll(w, listener) == notify(notifyOthers(w, listener, 1), listener)

(* Script.run *)
Script_run(w) ==
    LET new == RunnerOf(ScriptRunner_init(w.script))
        w1 == [WithRunner(w, new) EXCEPT !.others = Append(@, RunnerOf(w))]
    IN start_moving(w1)

(* A script that is run more than once, its first runner constructed *)
InitRun ==
    /\ Init
    /\ script.repeats * SumCounts(script.sequence) <= MaxRunSteps

(* Script.run for the first time *)
Run == StartMoving

(* Script.run for another time *)
RunAgain ==
    /\ nBegin >= 1
    /\ nBegin < MaxRuns
    /\ Commit(Script_run(Disturbed))

(* The garbage collector frees a runner that Script.run has replaced; the   *)
(* bus holds its listeners weakly and drops them                            *)
Collect ==
    \E i \in 1..Len(others) :
        Commit([World EXCEPT
                    !.others = SubSeq(@, 1, i - 1) \o SubSeq(@, i + 1, Len(@))])

(* "measure_script.abort" *)
AbortAll == Commit(notifyAll(Disturbed, "abort"))

(* "measure_script.pause" *)
PauseAll == Commit(notifyAll(Disturbed, "pause"))

(* "measure_script.unpause" *)
UnpauseAll ==
    /\ duplicates < MaxDuplicates
    /\ Commit(notifyAll(Disturbed, "unpause"))

(* "device.stepper_motor.move.end" *)
MoveEndAll ==
    /\ moveQueue # <<>>
    /\ Commit(notifyAll([World EXCEPT !.moveQueue = Tail(@)], "finish_moving"))

(* "device.error.stepper_motor" *)
StepperMotorErrorAll ==
    Commit(notifyAll([Disturbed EXCEPT !.moveQueue = IF @ = <<>> THEN @ ELSE Tail(@)],
                     "_on_stepper_motor_error"))

(* "device.spectrometer.status.measuring" *)
StatusMeasuringAll ==
    /\ captureRequests > 0
    /\ spectrometerStatus = "connected"
    /\ Commit(notifyAll([World EXCEPT !.spectrometerStatus = "measuring"],
                        "_measuring_start"))

(* "device.spectrometer.status.connected" *)
StatusConnectedAll ==
    /\ spectrometerStatus = "measuring"
    /\ Commit(notifyAll([World EXCEPT !.spectrometerStatus = "connected",
                                      !.captureRequests = @ - 1],
                        "_measuring_end"))

(* "device.error.spectrometer" *)
SpectrometerErrorAll ==
    Commit(notifyAll([Disturbed EXCEPT !.spectrometerStatus = "connected",
                                       !.captureRequests = 0],
                     "_on_spectrometer_error"))

NextRun ==
    \/ Run
    \/ RunAgain
    \/ Collect
    \/ AbortAll
    \/ PauseAll
    \/ UnpauseAll
    \/ MoveEndAll
    \/ StepperMotorErrorAll
    \/ StatusMeasuringAll
    \/ StatusConnectedAll
    \/ SpectrometerErrorAll

SpecRun == InitRun /\ [][NextRun]_vars

----------------------------------------------------------------------------
(* Script.try_load: the file is read and parsed, and the Script made of     *)
(* what parse_script returns.                                               *)

(* No Script has been loaded and no runner made: the runner's variables     *)
(* have the values they have for a runner that has not been started         *)
NoRunner ==
    LET w == ScriptRunner_init(NoScript)
    IN /\ current_state = w.current_state
       /\ paused = w.paused
       /\ measurement_iter = w.measurement_iter
       /\ current_measurement = w.current_measurement
       /\ current_measurement_count = w.current_measurement_count
       /\ subscriptions = w.subscriptions
       /\ moveQueue = w.moveQueue
       /\ captureRequests = w.captureRequests
       /\ spectrometerStatus = w.spectrometerStatus
       /\ out = w.out
       /\ hist = w.hist
       /\ nMoves = w.nMoves
       /\ nNadir = w.nNadir
       /\ nCaptures = w.nCaptures
       /\ nBegin = w.nBegin
       /\ nEnd = w.nEnd
       /\ reqSinceEntry = w.reqSinceEntry
       /\ duplicates = w.duplicates
       /\ disturbed = w.disturbed
       /\ yielded = w.yielded
       /\ exhausted = w.exhausted
       /\ others = w.others

(* A file with some document, not yet loaded *)
InitParse ==
    /\ document \in Documents
    /\ outcome = "none"
    /\ script = NoScript
    /\ NoRunner
    /\ NoRest

(* cls(file_path, **parse_script(f)) *)
ParseScript ==
    /\ outcome = "none"
    /\ LET p == parse_script(document)
       IN /\ outcome' = p.outcome
          /\ script' = p.result
    /\ UNCHANGED <<document, runnerVars, restVars>>

SpecParse == InitParse /\ [][ParseScript]_vars

----------------------------------------------------------------------------
(* ScriptEditDialog._try_save followed by Script.try_load: the script of    *)
(* the editor is written as YAML and the file is parsed again.              *)

(* What the editor holds: the value of the repeats widget and the           *)
(* Measurements of the sequence widget                                      *)
EditedSteps ==
    [angle : {FloatValue(90, "90.0"), FloatValue(0, "0.0"),
              StrValue("nadir"), StrValue("zenith")},
     measurements : {IntValue(1), IntValue(2)}]

EditedScripts ==
    [repeats : {IntValue(1), IntValue(2)},
     sequence : SeqsUpTo(EditedSteps, MaxDocLen)]

(* dataclasses.asdict of a Measurement *)
asdict(m) == [angle |-> m.angle, measurements |-> m.measurements]

(* The dict _try_save would write with the version after the current one *)
script_dict_next_version(e) ==
    [version |-> IntValue(CURRENT_SCRIPT_VERSION + 1),
     repeats |-> e.repeats,
     sequence |-> [i \in 1..Len(e.sequence) |-> asdict(e.sequence[i])]]

(* The dict _try_save writes: version, repeats, sequence *)
script_dict(e) ==
    [version |-> IntValue(CURRENT_SCRIPT_VERSION),
     repeats |-> e.repeats,
     sequence |-> [i \in 1..Len(e.sequence) |-> asdict(e.sequence[i])]]

(* What a plain (unquoted) word of a YAML text is read as *)
resolve_word(word) ==
    IF word \in {"", "~", "null", "true", "false", "yes", "no", "on", "off"}
    THEN "other" ELSE "str"

(* yaml.safe_dump of a scalar: the form of the text written for it; a str   *)
(* that would be read as something else is written in quotes                *)
represent(v) ==
    [form |-> CASE v.t = "int" -> "int"
                [] v.t = "float" -> "float"
                [] v.t = "str" /\ resolve_word(v.s) = "str" -> "plain"
                [] OTHER -> "quoted",
     n |-> v.n, s |-> v.s]

(* yaml.safe_load of a scalar *)
construct(tok) ==
    CASE tok.form = "int" -> IntValue(tok.n)
      [] tok.form = "float" -> FloatValue(tok.n, tok.s)
      [] tok.form = "plain" /\ resolve_word(tok.s) # "str" ->
             [t |-> "other", n |-> 0, s |-> tok.s]
      [] OTHER -> StrValue(tok.s)

(* yaml.safe_dump(script, f, sort_keys=False): the keys in their order *)
yaml_safe_dump(d) ==
    [version |-> represent(d.version),
     repeats |-> represent(d.repeats),
     sequence |->
         [i \in 1..Len(d.sequence) |->
             [angle |-> represent(d.sequence[i].angle),
              measurements |-> represent(d.sequence[i].measurements)]]]

(* yaml.safe_load of the text yaml.safe_dump has written *)
yaml_safe_load(text) ==
    [kind |-> "map", has_version |-> FALSE,
     version |-> construct(text.version),
     repeats |-> construct(text.repeats),
     sequence |->
         [t |-> "list",
          items |-> [i \in 1..Len(text.sequence) |->
                        [angle |-> construct(text.sequence[i].angle),
                         measurements |->
                             construct(text.sequence[i].measurements)]]],
     extra |-> FALSE]

(* The editor holds a script; nothing has been saved *)
InitRoundTrip ==
    /\ edited \in EditedScripts
    /\ NoDevices
    /\ NoHTTP
    /\ NoST10
    /\ document = NoDocument
    /\ outcome = "none"
    /\ script = NoScript
    /\ NoRunner

(* ScriptEditDialog._try_save: with no instructions there is nothing to     *)
(* save; else the script is written to the file                             *)
Save ==
    /\ document = NoDocument
    /\ edited.sequence # <<>>
    /\ document' = yaml_safe_load(yaml_safe_dump(script_dict(edited)))
    /\ UNCHANGED <<script, outcome, runnerVars, restVars>>

(* Script.try_load of the file that was saved *)
Load ==
    /\ document # NoDocument
    /\ ParseScript

NextRoundTrip == Save \/ Load

SpecRoundTrip == InitRoundTrip /\ [][NextRoundTrip]_vars

----------------------------------------------------------------------------
(* Device (frog.hardware.device) and ActiveDeviceManager: devices are       *)
(* opened and closed on request, announce themselves on the message bus     *)
(* and serve the requests of the handlers they subscribed.                  *)

(* The device types: FTSW500Interface opens in its constructor,             *)
(* OPUSInterface when the first status reply arrives; a temperature         *)
(* controller subscribes the two handlers of TemperatureControllerBase      *)
DeviceTypes ==
    {[class_name |-> "FTSW500Interface", instance |-> "spectrometer",
      async_open |-> FALSE,
      handlers |-> <<[func |-> "request_command",
                      success_topic_suffix |-> ""]>>],
     [class_name |-> "OPUSInterface", instance |-> "spectrometer",
      async_open |-> TRUE,
      handlers |-> <<[func |-> "request_command",
                      success_topic_suffix |-> ""]>>],
     [class_name |-> "TC4820", instance |-> "temperature_controller.hot_bb",
      async_open |-> FALSE,
      handlers |-> <<[func |-> "get_properties",
                      success_topic_suffix |-> "response"],
                     [func |-> "change_set_point",
                      success_topic_suffix |-> ""]>>]}

(* The devices, the manager and the log, as the handlers below change them; *)
(* raised is the exception on its way to the caller                         *)
DeviceWorld ==
    [devices |-> devices, _active_devices |-> _active_devices,
     sent |-> <<>>, notes |-> notes, raised |-> "none"]

Msg(kind, i, arg) == [kind |-> kind, instance |-> i, arg |-> arg]

emit(s, m) == [s EXCEPT !.sent = Append(@, m)]

(* ActiveDeviceManager._on_device_open_start *)
_on_device_open_start(s, i, class_name) ==
    emit([s EXCEPT !._active_devices[i] =
                       [class_name |-> class_name, state |-> "CONNECTING"]],
         Msg("device_started_open", i, class_name))

(* ActiveDeviceManager._on_device_open_end: a KeyError for an instance      *)
(* that is not tracked                                                      *)
_on_device_open_end(s, i, class_name) ==
    IF s._active_devices[i] = NotActive
    THEN [s EXCEPT !.raised = "KeyError"]
    ELSE LET s1 == [s EXCEPT !._active_devices[i].state = "CONNECTED"]
         IN  IF s._active_devices[i].class_name # class_name
             THEN [s1 EXCEPT !.raised = "AssertionError"]
             ELSE emit(s1, Msg("device_opened", i, class_name))

(* ActiveDeviceManager._on_device_closed *)
_on_device_closed(s, i) ==
    IF s._active_devices[i] = NotActive
    THEN s
    ELSE emit([s EXCEPT !._active_devices[i] = NotActive],
              Msg("device_closed", i, ""))

(* pub.sendMessage of a lifecycle notification: it is noted as the last one *)
(* of the instance and ActiveDeviceManager's listener runs                  *)
sendLifecycle(s, kind, i, class_name) ==
    LET s1 == [emit(s, Msg(kind, i, class_name)) EXCEPT !.notes[i] = kind]
    IN  CASE kind = "device.before_opening" ->
                 _on_device_open_start(s1, i, class_name)
          [] kind = "device.after_opening" ->
                 _on_device_open_end(s1, i, class_name)
          [] kind = "device.closed" -> _on_device_closed(s1, i)

(* Device.send_error_message; ActiveDeviceManager._on_device_error shows    *)
(* the error                                                                *)
send_error_message(s, i, error) ==
    emit(emit(s, Msg("device.error", i, error)),
         Msg("show_error_message", i, error))

(* signal_is_opened without the check that the device is not yet open *)
signal_is_opened_unchecked(s, i) ==
    LET d == s.devices[i]
        s1 == [emit(s, Msg("signal_is_opened", i, "")) EXCEPT
                  !.devices[i]._is_open = TRUE,
                  !.devices[i].attached =
                      {d._subscriptions[k].func :
                           k \in 1..Len(d._subscriptions)},
                  !.devices[i].nOpened = @ + 1,
                  !.sent = @ \o [k \in 1..Len(d._subscriptions) |->
                                    Msg("subscribe", i,
                                        d._subscriptions[k].func)]]
        s2 == sendLifecycle(s1, "device.after_opening", i,
                            d.type.class_name)
    IN  IF s2.raised # "none" THEN s2
        ELSE emit(s2, Msg("device.opened", i, ""))

(* Device.signal_is_opened: an error if already open; else the deferred     *)
(* subscriptions are made, then after_opening is sent, then opened          *)
signal_is_opened(s, i) ==
    LET d == s.devices[i]
        s1 == [emit(s, Msg("signal_is_opened", i, "")) EXCEPT
                  !.devices[i]._is_open = TRUE,
                  !.devices[i].attached =
                      {d._subscriptions[k].func :
                           k \in 1..Len(d._subscriptions)},
                  !.devices[i].nOpened = @ + 1,
                  !.sent = @ \o [k \in 1..Len(d._subscriptions) |->
                                    Msg("subscribe", i,
                                        d._subscriptions[k].func)]]
        s2 == sendLifecycle(s1, "device.after_opening", i,
                            d.type.class_name)
    IN  IF d._is_open
        THEN [emit(s, Msg("signal_is_opened", i, "")) EXCEPT
                 !.raised = "RuntimeError"]
        ELSE IF s2.raised # "none" THEN s2
             ELSE emit(s2, Msg("device.opened", i, ""))

(* _init_device_type that patches __init__ of every device type *)
_init_device_type_patches_all(s, i) == signal_is_opened(s, i)

(* Device._init_device_type: __init__ of a type that does not open          *)
(* asynchronously is followed by signal_is_opened (_init_and_signal)        *)
_init_device_type(s, i) ==
    IF ~s.devices[i].type.async_open THEN signal_is_opened(s, i) ELSE s

(* Device.__init__ and the subscribe calls of the base type's __init__: the *)
(* device is not open, so the subscriptions are only recorded; a device     *)
(* that opens asynchronously has made its first request                     *)
Device_init(s, i, t) ==
    emit([s EXCEPT !.devices[i] =
                       [type |-> t, phase |-> "live", _is_open |-> FALSE,
                        _subscriptions |-> t.handlers, attached |-> {},
                        connected |-> FALSE, pending |-> t.async_open,
                        nOpened |-> 0]],
         Msg("__init__", i, t.class_name))

(* Device.subscribe that attaches the handler whether or not the device is  *)
(* open                                                                     *)
Device_subscribe_at_once(s, i, h) ==
    emit([s EXCEPT !.devices[i]._subscriptions = Append(@, h),
                   !.devices[i].attached = @ \cup {h.func}],
         Msg("subscribe", i, h.func))

(* Device.subscribe: the wrapped handler is recorded; it is attached to the *)
(* bus only if the device is open                                           *)
Device_subscribe(s, i, h) ==
    LET s1 == [s EXCEPT !.devices[i]._subscriptions = Append(@, h)]
    IN  IF s.devices[i]._is_open
        THEN emit([s1 EXCEPT !.devices[i].attached = @ \cup {h.func}],
                  Msg("subscribe", i, h.func))
        ELSE s1

(* Device.close: pub.unsubscribe of every recorded subscription *)
Device_close(s, i) ==
    LET subs == s.devices[i]._subscriptions
    IN  [s EXCEPT !.devices[i].attached =
                      @ \ {subs[k].func : k \in 1..Len(subs)},
                  !.devices[i].phase = "closed",
                  !.sent = @ \o [k \in 1..Len(subs) |->
                                    Msg("unsubscribe", i, subs[k].func)]]

(* The handler itself: it is called, raises or returns; request_command of  *)
(* OPUSInterface makes an HTTP request                                      *)
handler(s, i, h, result) ==
    IF result = "raise"
    THEN [emit(emit(s, Msg("call", i, h.func)), Msg("raise", i, h.func))
             EXCEPT !.raised = "Exception"]
    ELSE [emit(s, Msg("call", i, h.func)) EXCEPT
             !.devices[i].pending =
                 @ \/ (s.devices[i].type.async_open
                          /\ h.func = "request_command")]

(* pubsub_errors that lets the exception through *)
pubsub_errors_reraises(s, i, h, result) == handler(s, i, h, result)

(* AbstractDevice.pubsub_errors: an exception of the handler is caught and  *)
(* sent as an error message                                                 *)
pubsub_errors(s, i, h, result) ==
    LET s1 == handler(s, i, h, result)
    IN  IF s1.raised # "none"
        THEN send_error_message([s1 EXCEPT !.raised = "none"], i, s1.raised)
        ELSE s1

(* AbstractDevice.pubsub_broadcast: as pubsub_errors, and the result of a   *)
(* handler that returns is sent on the success topic                        *)
pubsub_broadcast(s, i, h, result) ==
    LET s1 == handler(s, i, h, result)
    IN  IF s1.raised # "none"
        THEN send_error_message([s1 EXCEPT !.raised = "none"], i, s1.raised)
        ELSE emit(s1, Msg(h.success_topic_suffix, i, h.func))

(* An exception nobody caught reaches the caller; the step is over *)
CommitDevice(s) ==
    /\ devices' = s.devices
    /\ _active_devices' = s._active_devices
    /\ notes' = s.notes
    /\ sent' = IF s.raised # "none"
               THEN Append(s.sent, Msg("propagated", "", s.raised))
               ELSE s.sent
    /\ UNCHANGED <<script, document, outcome, runnerVars, edited, http,
                   st10>>

InitDevice ==
    /\ NoDevices
    /\ NoEdit
    /\ NoHTTP
    /\ NoST10
    /\ document = NoDocument
    /\ outcome = "none"
    /\ script = NoScript
    /\ NoRunner

(* open_device: the backend announces before_opening and constructs the    *)
(* device of the requested type                                             *)
Construct(i, t) ==
    /\ devices[i].phase # "live"
    /\ t.instance = i
    /\ CommitDevice(
           _init_device_type(
               Device_init(sendLifecycle(DeviceWorld, "device.before_opening",
                                         i, t.class_name),
                           i, t),
               i))

(* HTTPDevice._on_reply_received under pubsub_errors, for the request of a  *)
(* device that opens asynchronously: a failed reply is an error;            *)
(* OPUSInterface.handle_response signals that the device is open on the     *)
(* first status, sends a changed status and polls again                     *)
HandleResponse(i, reply) ==
    /\ devices[i].pending
    /\ LET s0 == [emit(DeviceWorld, Msg("_on_reply_received", i, reply))
                     EXCEPT !.devices[i].pending = FALSE]
           s1 == signal_is_opened(s0, i)
           polls(s) == [s EXCEPT !.devices[i].connected = TRUE,
                                 !.devices[i].pending = TRUE]
       IN  CommitDevice(
               CASE reply = "error" ->
                        send_error_message(s0, i, "RuntimeError")
                 [] reply # "error" /\ ~devices[i].connected ->
                        IF s1.raised # "none"
                        THEN send_error_message(
                                 [s1 EXCEPT !.raised = "none"], i, s1.raised)
                        ELSE polls(emit(s1, Msg("status", i, "")))
                 [] reply = "changed" /\ devices[i].connected ->
                        polls(emit(s0, Msg("status", i, "")))
                 [] OTHER -> polls(s0))

(* A request arrives on the topic of a handler that is attached to the bus: *)
(* the wrapper subscribe() has made for it runs                             *)
Invoke(i, k, result) ==
    /\ k \in 1..Len(devices[i]._subscriptions)
    /\ devices[i]._subscriptions[k].func \in devices[i].attached
    /\ LET h == devices[i]._subscriptions[k]
       IN  CommitDevice(
               IF h.success_topic_suffix # ""
               THEN pubsub_broadcast(DeviceWorld, i, h, result)
               ELSE pubsub_errors(DeviceWorld, i, h, result))

(* The handlers the device types subscribe *)
Handlers ==
    UNION {{t.handlers[k] : k \in 1..Len(t.handlers)} : t \in DeviceTypes}

(* A further handler is subscribed on a device in use, open or still        *)
(* opening                                                                  *)
Subscribe(i, h) ==
    /\ devices[i].phase = "live"
    /\ Len(devices[i]._subscriptions) < MaxSubscriptions
    /\ \A k \in 1..Len(devices[i]._subscriptions) :
           devices[i]._subscriptions[k] # h
    /\ CommitDevice(Device_subscribe(DeviceWorld, i, h))

(* close_device / ActiveDeviceManager.disconnect_all: the backend closes    *)
(* the device and announces closed. OPUSInterface.close stops the status    *)
(* timer: a poll that was only scheduled is cancelled, a request in flight  *)
(* is still answered                                                        *)
Close(i, in_flight) ==
    /\ devices[i].phase = "live"
    /\ in_flight \/ devices[i].connected
    /\ LET s0 == emit(DeviceWorld, Msg("close", i, ""))
           s1 == [Device_close(s0, i) EXCEPT
                     !.devices[i].pending = @ /\ in_flight]
       IN  CommitDevice(sendLifecycle(s1, "device.closed", i, ""))

NextDevice ==
    \E i \in Instances :
        \/ \E t \in DeviceTypes : Construct(i, t)
        \/ \E reply \in {"error", "same", "changed"} : HandleResponse(i, reply)
        \/ \E k \in 1..MaxSubscriptions, result \in {"return", "raise"} :
               Invoke(i, k, result)
        \/ \E h \in Handlers : Subscribe(i, h)
        \/ \E in_flight \in BOOLEAN : Close(i, in_flight)

SpecDevice == InitDevice /\ [][NextDevice]_vars

----------------------------------------------------------------------------
(* HTTPDevice: a request is made in the background and its reply handled;   *)
(* http.n is the retry count the request was made with, attempts counts     *)
(* the requests sent, callbacks the calls of the callback, errors holds the *)
(* exceptions reported as device errors.                                    *)

(* HTTPDevice.make_request: the default retry count if none is given, a     *)
(* ValueError for a negative one; else the request is sent                  *)
make_request(h, given, retries) ==
    IF given /\ retries < 0
    THEN [h EXCEPT !.raised = "ValueError"]
    ELSE [h EXCEPT !.awaiting = TRUE,
                   !.retries_remaining = IF given THEN retries ELSE h._retries,
                   !.attempts = @ + 1]

(* _on_reply_received that retries with the same number of retries *)
_on_reply_received_same_retries(h, reply) ==
    LET h0 == [h EXCEPT !.awaiting = FALSE, !.reply = reply]
    IN  IF reply = "error"
        THEN IF h.retries_remaining = 0
             THEN [h0 EXCEPT !.raised = "RuntimeError"]
             ELSE make_request(h0, TRUE, h.retries_remaining)
        ELSE [h0 EXCEPT !.callbacks = @ + 1,
                        !.raised = IF reply = "ok" THEN "none"
                                   ELSE "Exception"]

(* HTTPDevice._on_reply_received: a failed reply is a RuntimeError with no  *)
(* retries remaining and a new request with one retry fewer otherwise; a    *)
(* successful reply is decoded and given to the callback, which may raise   *)
_on_reply_received(h, reply) ==
    LET h0 == [h EXCEPT !.awaiting = FALSE, !.reply = reply]
    IN  IF reply = "error"
        THEN IF h.retries_remaining = 0
             THEN [h0 EXCEPT !.raised = "RuntimeError"]
             ELSE make_request(h0, TRUE, h.retries_remaining - 1)
        ELSE [h0 EXCEPT !.callbacks = @ + 1,
                        !.raised = IF reply = "ok" THEN "none"
                                   ELSE "Exception"]

(* A device with some default retry count; no request has been made *)
InitHTTP ==
    /\ \E default_retries \in 0..MaxRetries :
           http = [_retries |-> default_retries, n |-> 0, awaiting |-> FALSE,
                   retries_remaining |-> 0, attempts |-> 0, callbacks |-> 0,
                   errors |-> <<>>, raised |-> "none", reply |-> "none"]
    /\ NoDevices
    /\ NoST10
    /\ NoEdit
    /\ document = NoDocument
    /\ outcome = "none"
    /\ script = NoScript
    /\ NoRunner

(* The device makes a request, with a retry count or without *)
MakeRequest(given, retries) ==
    /\ http.attempts = 0
    /\ http.raised = "none"
    /\ http' = [make_request(http, given, retries) EXCEPT
                   !.n = IF given THEN retries ELSE http._retries]
    /\ UNCHANGED <<script, document, outcome, runnerVars, edited, devices,
                   _active_devices, sent, notes, st10>>

(* The reply has finished: _on_reply_received runs under pubsub_errors,     *)
(* which sends an exception as a device error                               *)
ReplyReceived(reply) ==
    /\ http.awaiting
    /\ LET h == _on_reply_received(http, reply)
       IN  http' = IF h.raised # "none"
                   THEN [h EXCEPT !.errors = Append(@, h.raised),
                                  !.raised = "none"]
                   ELSE h
    /\ UNCHANGED <<script, document, outcome, runnerVars, edited, devices,
                   _active_devices, sent, notes, st10>>

NextHTTP ==
    \/ \E given \in BOOLEAN, retries \in -1..MaxRetries :
           MakeRequest(given, retries)
    \/ \E reply \in {"error", "ok", "ok_callback_raises"} :
           ReplyReceived(reply)

SpecHTTP == InitHTTP /\ [][NextHTTP]_vars

----------------------------------------------------------------------------
(* ST10Controller: the controller writes a command to the serial line and   *)
(* reads the response synchronously from the queue of its _SerialReader,    *)
(* a thread that reads every message of the device; the device sends the    *)
(* magic string when the motor has stopped.                                 *)
(* st10.wire holds the messages the device has sent or will send that the   *)
(* reader has not read yet, each with the number of the command it answers; *)
(* st10.signals counts the async_read_completed signals emitted and not yet *)
(* delivered to the controller's thread; reads, errors, raised and move_end *)
(* are those of the last step.                                              *)

_SEND_STRING_MAGIC == [cmd |-> 0, text |-> "Z"]

(* No message was read *)
NoResponse == [cmd |-> -1, text |-> ""]

(* The controller at the start of a step *)
ST10World ==
    [st10 EXCEPT !.reads = <<>>, !.errors = <<>>, !.raised = "none",
                 !.move_end = FALSE]

(* _SerialReader._read_success: the magic string emits async_read_completed, *)
(* any other message is put into the queue                                  *)
_read_success(s, message) ==
    IF message = _SEND_STRING_MAGIC
    THEN [s EXCEPT !.signals = @ + 1]
    ELSE [s EXCEPT !.out_queue = Append(@, message)]

(* The reader thread reads the messages on the line up to the first that it *)
(* puts into the queue                                                      *)
RECURSIVE run(_)
run(s) ==
    IF s.wire = <<>> \/ s.out_queue # <<>> THEN s
    ELSE run(_read_success([s EXCEPT !.wire = Tail(@)], Head(s.wire)))

(* _SerialReader.read_sync: the first message of the queue, waiting for the *)
(* reader thread if the queue is empty; SerialTimeoutException if no        *)
(* message comes within sync_timeout                                        *)
read_sync(s, timely) ==
    LET s1 == IF timely THEN run(s) ELSE s
    IN  IF s1.out_queue = <<>>
        THEN [s EXCEPT !.raised = "SerialTimeoutException",
                       !.reads = Append(@, [cmd |-> s.written,
                                            response |-> NoResponse])]
        ELSE [s1 EXCEPT !.out_queue = Tail(@),
                        !.reads = Append(@, [cmd |-> s.written,
                                             response |-> Head(s1.out_queue)])]

(* _write_check and _request_value: the command is written, the device      *)
(* will answer it, and the next message read synchronously is checked: an   *)
(* acknowledgement ("%") for _write_check, the value ("AL=") for            *)
(* _request_value                                                           *)
_write_check(s, text, timely) ==
    LET n == s.written + 1
        s1 == read_sync([s EXCEPT !.written = n,
                                  !.wire = Append(@, [cmd |-> n,
                                                      text |-> text])],
                        s.out_queue # <<>> \/ timely)
    IN  IF s1.raised = "none" /\ s1.reads[Len(s1.reads)].response.text # text
        THEN [s1 EXCEPT !.raised = "ST10ControllerError"]
        ELSE s1

(* step setter (move_to): stop_moving, "feed to position" and               *)
(* _notify_on_stopped, each written and checked unless an earlier one       *)
(* raised; the device sends the magic string once the send string command   *)
(* has been written and the motor has stopped                               *)
RECURSIVE step(_, _)
step(s, timely) ==
    IF s.raised # "none" THEN s
    ELSE IF timely = <<>> THEN [s EXCEPT !.wire = Append(@, _SEND_STRING_MAGIC)]
    ELSE LET s1 == _write_check(s, "%", Head(timely))
         IN  IF Len(timely) = 1 /\ s1.raised # "none"
             THEN [s1 EXCEPT !.wire = Append(@, _SEND_STRING_MAGIC)]
             ELSE step(s1, Tail(timely))

(* ST10Controller._on_initial_move_end: the timer is stopped, later move    *)
(* ends go to _on_move_end and the device signals that it is open           *)
_on_initial_move_end(s) ==
    IF s._is_open
    THEN [s EXCEPT !.timer = "inactive", !.slot = "_on_move_end",
                   !.raised = "RuntimeError"]
    ELSE [s EXCEPT !.timer = "inactive", !.slot = "_on_move_end",
                   !._is_open = TRUE, !.phase = "open"]

(* ST10Controller._on_move_end: the alarm code is requested; an alarm is    *)
(* sent as an error, else the end of the move is announced                  *)
_on_move_end(s, timely, alarm) ==
    LET s1 == _write_check(s, "AL=", timely)
    IN  IF s1.raised # "none" THEN s1
        ELSE IF alarm THEN [s1 EXCEPT !.errors = <<"ST10ControllerError">>]
        ELSE [s1 EXCEPT !.move_end = TRUE]

(* Only the controller changes *)
NoST10Step ==
    UNCHANGED <<script, document, outcome, runnerVars, edited, devices,
                _active_devices, sent, notes, http>>

InitST10 ==
    /\ NoST10
    /\ NoDevices
    /\ NoEdit
    /\ NoHTTP
    /\ document = NoDocument
    /\ outcome = "none"
    /\ script = NoScript
    /\ NoRunner

(* ST10Controller.__init__ with a device that answers every command in      *)
(* time: the reader is started and connected to _on_initial_move_end, the   *)
(* motor is homed, the timer started and the magic string requested; a      *)
(* failed check raises and no controller is made                            *)
ST10Open(id_ok) ==
    /\ st10.phase \in {"none", "closed"}
    /\ st10' = IF id_ok
               THEN [ST10World EXCEPT
                        !.phase = "opening", !._is_open = FALSE,
                        !.slot = "_on_initial_move_end", !.timer = "active",
                        !.wire = <<_SEND_STRING_MAGIC>>, !.out_queue = <<>>,
                        !.signals = 0, !.written = 0, !.timed_out = FALSE]
               ELSE [ST10World EXCEPT !.phase = "none",
                                      !.raised = "ST10ControllerError"]
    /\ NoST10Step

(* The single-shot timer fires: "Timed out waiting for motor to move" is    *)
(* sent as an error of the device                                           *)
HomingTimeout ==
    /\ st10.timer = "active"
    /\ st10' = [ST10World EXCEPT !.timer = "inactive", !.timed_out = TRUE,
                                 !.errors = <<"RuntimeError">>]
    /\ NoST10Step

(* _SerialReader._process_read while the controller's thread is not         *)
(* waiting: the next message of the device is read                          *)
ProcessRead ==
    /\ st10.phase \in {"opening", "open"}
    /\ st10.wire # <<>>
    /\ st10' = _read_success([ST10World EXCEPT !.wire = Tail(@)],
                             Head(st10.wire))
    /\ NoST10Step

(* An async_read_completed signal reaches the controller's thread: the slot *)
(* connected to it runs                                                     *)
AsyncReadCompleted(timely, alarm) ==
    /\ st10.signals > 0
    /\ st10.slot = "_on_move_end" => st10.written < MaxCommands
    /\ LET s == [ST10World EXCEPT !.signals = @ - 1]
       IN  st10' = CASE st10.slot = "_on_initial_move_end" ->
                            _on_initial_move_end(s)
                     [] st10.slot = "_on_move_end" ->
                            _on_move_end(s, timely, alarm)
                     [] OTHER -> s
    /\ NoST10Step

(* A move request for the open device: move_to under pubsub_errors, which   *)
(* sends an exception as an error of the device                             *)
Move(timely) ==
    /\ st10.phase = "open"
    /\ st10.written + Len(timely) <= MaxCommands
    /\ LET s == step(ST10World, timely)
       IN  st10' = IF s.raised # "none"
                   THEN [s EXCEPT !.errors = <<s.raised>>, !.raised = "none"]
                   ELSE s
    /\ NoST10Step

(* ST10Controller.close: the device's handlers are unsubscribed, move ends  *)
(* are no longer handled, the mirror is sent to nadir (an exception is only *)
(* logged), the reader is told to quit and the serial line is closed        *)
ST10Close(timely) ==
    /\ st10.phase \in {"opening", "open"}
    /\ st10.written + Len(timely) <= MaxCommands
    /\ st10' = [step([ST10World EXCEPT !.slot = "none"], timely) EXCEPT
                   !.raised = "none", !.wire = <<>>, !.phase = "closed"]
    /\ NoST10Step

NextST10 ==
    \/ \E id_ok \in BOOLEAN : ST10Open(id_ok)
    \/ HomingTimeout
    \/ ProcessRead
    \/ \E timely \in BOOLEAN, alarm \in BOOLEAN :
           AsyncReadCompleted(timely, alarm)
    \/ \E timely \in [1..3 -> BOOLEAN] : Move(timely)
    \/ \E timely \in [1..3 -> BOOLEAN] : ST10Close(timely)

SpecST10 == InitST10 /\ [][NextST10]_vars

----------------------------------------------------------------------------
(* Properties *)

ActiveStates == {"moving", "waiting_to_measure", "measuring", "waiting_to_move"}

NADIR_MOVE == <<"send", MOVE_BEGIN, "nadir">>
SCRIPT_END == <<"send", "measure_script.end", "">>
START_MOVING == <<"send", "measure_script.start_moving", "">>
CAPTURE == <<"send", START_MEASURING, "">>
SHOW_ERROR == <<"show_error_message", "", "">>
LOG_ABORT == <<"log", "Aborting measure script", "">>

(* How many times a handler whose log is o did e *)
CountIn(o, e) == Cardinality({i \in 1..Len(o) : o[i] = e})

(* How many move requests a handler whose log is o dispatched *)
MovesIn(o) == Cardinality({i \in 1..Len(o) : o[i][1] = "send" /\ o[i][2] = MOVE_BEGIN})

(* What on_enter_not_running does on a real entry, in order *)
Cleanup ==
    << <<"unsubscribe", "finish_moving", "">>,
       <<"unsubscribe", "_on_stepper_motor_error", "">>,
       <<"unsubscribe", "_on_spectrometer_error", "">>,
       NADIR_MOVE,
       SCRIPT_END >>

(* The state the runner was in before it entered its current state *)
PreviousState == IF Len(hist) > 1 THEN hist[Len(hist) - 1] ELSE "none"

(* How many times the runner has entered state st *)
Entries(st) == Cardinality({i \in 1..Len(hist) : hist[i] = st})

(* C1: abort() called in any of the four non-idle states leaves the runner  *)
(* in not_running and causes exactly one move request, to "nadir", and      *)
(* exactly one "measure_script.end" broadcast.                              *)
C1_AbortFromActiveState ==
    [][(Abort /\ current_state \in ActiveStates) =>
          /\ current_state' = "not_running"
          /\ CountIn(out', NADIR_MOVE) = 1
          /\ MovesIn(out') = 1
          /\ nNadir' = nNadir + 1
          /\ CountIn(out', SCRIPT_END) = 1
          /\ nEnd' = nEnd + 1]_vars

C1_Witness ==
    /\ current_state = "not_running"
    /\ PreviousState = "waiting_to_move"
    /\ out = Append(Cleanup, LOG_ABORT)
    /\ paused

(* C3: a device error on either error channel delivered in a non-idle state *)
(* aborts the run: the state becomes not_running, "measure_script.end" is   *)
(* broadcast once for the run and never twice, and the handler dispatches   *)
(* no capture request and no move other than the return to nadir.           *)
C3_ErrorAborts ==
    /\ [](nEnd <= 1)
    /\ [][((StepperMotorError \/ SpectrometerError)
              /\ current_state \in ActiveStates) =>
            /\ current_state' = "not_running"
            /\ nEnd' = 1
            /\ CountIn(out', SCRIPT_END) = 1
            /\ CountIn(out', CAPTURE) = 0
            /\ CountIn(out', START_MOVING) = 0
            /\ MovesIn(out') = 1
            /\ CountIn(out', NADIR_MOVE) = 1]_vars

C3_Witness ==
    /\ current_state = "not_running"
    /\ PreviousState = "moving"
    /\ ~exhausted
    /\ out = Cleanup \o <<LOG_ABORT, SHOW_ERROR>>
    /\ nEnd = 1

C2_NoOverlappingCapture == duplicates = 0

(* C6: an undisturbed run of a script with one step of one measurement and  *)
(* repeats = 1 visits not_running, moving, waiting_to_measure, measuring,   *)
(* waiting_to_move, moving, not_running; the second entry into moving       *)
(* finds the iterator exhausted and dispatches no measurement move.         *)
OneStepScript ==
    /\ script.repeats = 1
    /\ Len(script.sequence) = 1
    /\ script.sequence[1].measurements = 1

OneStepStates ==
    <<"not_running", "moving", "waiting_to_measure", "measuring",
      "waiting_to_move", "moving", "not_running">>

C6_OneStepRun ==
    (OneStepScript /\ ~disturbed) =>
        /\ Len(hist) <= Len(OneStepStates)
        /\ hist = SubSeq(OneStepStates, 1, Len(hist))
        /\ nMoves = (IF Len(hist) > 1 THEN 1 ELSE 0)
        /\ exhausted <=> Len(hist) = Len(OneStepStates)
        /\ (current_state = "not_running" /\ nBegin = 1) => hist = OneStepStates

C6_Witness ==
    /\ OneStepScript
    /\ ~disturbed
    /\ hist = OneStepStates
    /\ nMoves = 1
    /\ moveQueue = <<"nadir">>

(* C7: a fresh ScriptIterator of a valid script yields exactly              *)
(* repeats * len(sequence) Measurements before it signals exhaustion, and   *)
(* the k-th one (from 0) is sequence[k mod len(sequence)].                  *)
TotalYield == script.repeats * Len(script.sequence)

C7_IteratorYield ==
    /\ [](yielded <= TotalYield)
    /\ [](exhausted => yielded = TotalYield)
    /\ [](yielded > 0 =>
            current_measurement =
                script.sequence[((yielded - 1) % Len(script.sequence)) + 1])
    /\ [][IterNext =>
            IF yielded < TotalYield
            THEN yielded' = yielded + 1 /\ ~exhausted'
            ELSE yielded' = yielded /\ exhausted']_vars

C7_Witness ==
    /\ exhausted
    /\ script.repeats = 2
    /\ Len(script.sequence) = 2
    /\ yielded = 4
    /\ current_measurement = script.sequence[2]
    /\ script.sequence[1] # script.sequence[2]

(* C8: when an undisturbed run of a valid script has returned to            *)
(* not_running it has dispatched exactly repeats * len(sequence) moves for  *)
(* measurements and repeats * (sum of the measurement counts) capture       *)
(* requests, besides the one return to nadir.                               *)
C8_RunTotals ==
    (~disturbed /\ nBegin = 1 /\ current_state = "not_running") =>
        /\ nMoves = script.repeats * Len(script.sequence)
        /\ nCaptures = script.repeats * SumCounts(script.sequence)
        /\ nNadir = 1

C8_Witness ==
    /\ ~disturbed
    /\ nBegin = 1
    /\ current_state = "not_running"
    /\ script.repeats = 2
    /\ Len(script.sequence) = 2
    /\ script.sequence[1].measurements = 1
    /\ script.sequence[2].measurements = 2
    /\ nMoves = 4
    /\ nCaptures = 6

(* C9: the move-complete and the two error listeners are attached exactly   *)
(* while the state is not not_running; in not_running a late move-complete  *)
(* or error notification changes nothing in the runner and causes no        *)
(* dispatch and no broadcast.                                               *)
RunnerFields ==
    <<current_state, paused, measurement_iter, current_measurement,
      current_measurement_count, subscriptions>>

C9_DetachedWhileIdle ==
    /\ [](current_state = "not_running" => subscriptions \cap LISTENERS_DEVICE = {})
    /\ [](current_state # "not_running" => LISTENERS_DEVICE \subseteq subscriptions)
    /\ [][(current_state = "not_running"
              /\ (MoveEnd \/ StepperMotorError \/ SpectrometerError)) =>
            /\ RunnerFields' = RunnerFields
            /\ out' = <<>>
            /\ captureRequests' <= captureRequests
            /\ Len(moveQueue') <= Len(moveQueue)
            /\ nBegin' = nBegin /\ nEnd' = nEnd /\ nNadir' = nNadir]_vars

C9_Witness ==
    /\ current_state = "not_running"
    /\ nEnd = 1
    /\ moveQueue = <<>>
    /\ out = <<>>
    /\ subscriptions = {}

WaitingPaused ==
    /\ current_state = "waiting_to_measure"
    /\ paused
    /\ reqSinceEntry = 0

C5_PausedWaitsForUnpause ==
    /\ [][(current_state # "waiting_to_measure"
              /\ current_state' = "waiting_to_measure" /\ paused') =>
            CountIn(out', CAPTURE) = 0 /\ reqSinceEntry' = 0]_vars
    /\ [][WaitingPaused =>
            \/ /\ current_state' = "waiting_to_measure"
               /\ paused'
               /\ CountIn(out', CAPTURE) = 0
            \/ /\ current_state' = "waiting_to_measure"
               /\ ~paused'
               /\ CountIn(out', CAPTURE) = 1
               /\ reqSinceEntry' = 1
            \/ /\ current_state' = "not_running"
               /\ CountIn(out', CAPTURE) = 0]_vars

(* C11: abort() called in not_running is a no-op: the state stays           *)
(* not_running, no move request is dispatched, "measure_script.end" is not  *)
(* broadcast and no subscription is changed; abort() only writes its log    *)
(* line.                                                                    *)
C11_AbortWhileIdle ==
    [][(Abort /\ current_state = "not_running") =>
          /\ current_state' = "not_running"
          /\ out' = <<LOG_ABORT>>
          /\ subscriptions' = subscriptions
          /\ moveQueue' = moveQueue
          /\ captureRequests' = captureRequests
          /\ hist' = hist
          /\ nNadir' = nNadir /\ nEnd' = nEnd /\ nBegin' = nBegin
          /\ RunnerFields' = RunnerFields]_vars

C11_Witness ==
    /\ current_state = "not_running"
    /\ out = <<LOG_ABORT>>
    /\ nEnd = 1
    /\ moveQueue = <<"nadir">>
    /\ subscriptions = {}

(* C12: pause() only sets the paused flag: in every state it leaves the     *)
(* state, the iterator, the loaded measurement, current_measurement_count   *)
(* and the subscriptions unchanged and dispatches nothing; in moving and    *)
(* in measuring it has no immediate effect.                                 *)
C12_PauseOnlySetsFlag ==
    [][Pause =>
          /\ paused'
          /\ current_state' = current_state
          /\ measurement_iter' = measurement_iter
          /\ current_measurement' = current_measurement
          /\ current_measurement_count' = current_measurement_count
          /\ subscriptions' = subscriptions
          /\ out' = <<>>
          /\ hist' = hist
          /\ moveQueue' = moveQueue
          /\ captureRequests' = captureRequests
          /\ nBegin' = nBegin /\ nEnd' = nEnd /\ nNadir' = nNadir]_vars

C12_Witness ==
    /\ paused
    /\ current_state = "measuring"
    /\ current_measurement_count = 1
    /\ out = <<>>
    /\ spectrometerStatus = "measuring"
    /\ "_measuring_end" \in subscriptions

(* C13: unpause() always clears the paused flag; called in waiting_to_move  *)
(* it performs finish_waiting_for_move at once, so that the runner is in    *)
(* moving with the next measurement loaded; called in not_running, moving   *)
(* or measuring it leaves the state unchanged and dispatches nothing.       *)
UnpauseElsewhere ==
    current_state \in {"not_running", "moving", "measuring"} =>
        /\ current_state' = current_state
        /\ out' = <<>>
        /\ hist' = hist
        /\ measurement_iter' = measurement_iter
        /\ current_measurement' = current_measurement
        /\ current_measurement_count' = current_measurement_count
        /\ subscriptions' = subscriptions
        /\ moveQueue' = moveQueue
        /\ captureRequests' = captureRequests

NextMoveStarted ==
    /\ current_state' = "moving"
    /\ hist' = Append(hist, "moving")
    /\ yielded' = yielded + 1
    /\ current_measurement' =
           script.sequence[(yielded % Len(script.sequence)) + 1]
    /\ current_measurement_count' = 0
    /\ out' = <<START_MOVING, <<"send", MOVE_BEGIN, current_measurement'.angle>> >>

C13_UnpauseAdvances ==
    [][Unpause =>
          /\ ~paused'
          /\ current_state = "waiting_to_move" => NextMoveStarted
          /\ UnpauseElsewhere]_vars

(* C13 as amended: in waiting_to_move unpause() performs                    *)
(* finish_waiting_for_move at once and the runner enters moving; there it   *)
(* loads the next measurement and dispatches its move, or, when the         *)
(* iterator is exhausted, loads nothing, finishes the run and is in         *)
(* not_running when unpause() returns.  The rest is as stated.              *)
RunFinished ==
    /\ current_state' = "not_running"
    /\ hist' = hist \o <<"moving", "not_running">>
    /\ exhausted'
    /\ yielded' = yielded
    /\ current_measurement' = current_measurement
    /\ current_measurement_count' = current_measurement_count
    /\ out' = Cleanup

C13_UnpauseAdvancesOrFinishes ==
    [][Unpause =>
          /\ ~paused'
          /\ current_state = "waiting_to_move" =>
                 IF yielded < TotalYield THEN NextMoveStarted ELSE RunFinished
          /\ UnpauseElsewhere]_vars

C13_Witness ==
    /\ current_state = "not_running"
    /\ Len(hist) > 2
    /\ hist[Len(hist) - 2] = "waiting_to_move"
    /\ exhausted
    /\ ~paused
    /\ out = Cleanup

(* C14: unpause() called in waiting_to_measure dispatches the capture       *)
(* request and does not change the state: the runner is still in            *)
(* waiting_to_measure with the same loaded measurement and the same         *)
(* current_measurement_count; it enters measuring only when the             *)
(* spectrometer reports that a capture has started.                         *)
START_MEASURING_NOTICE == <<"send", "measure_script.start_measuring", "">>

LastCaptureEnds ==
    /\ StatusConnected
    /\ current_state = "measuring"
    /\ current_measurement_count + 1 = current_measurement.measurements

C15_WaitingToMove ==
    /\ [](current_state = "waiting_to_move" => paused)
    /\ [][LastCaptureEnds =>
            IF paused
            THEN /\ current_state' = "waiting_to_move"
                 /\ hist' = Append(hist, "waiting_to_move")
                 /\ measurement_iter' = measurement_iter
                 /\ yielded' = yielded
                 /\ MovesIn(out') = 0
                 /\ moveQueue' = moveQueue
            ELSE /\ Len(hist') >= Len(hist) + 2
                 /\ SubSeq(hist', 1, Len(hist) + 2) =
                        hist \o <<"waiting_to_move", "moving">>
                 /\ current_state' \in {"moving", "not_running"}
                 /\ current_state' = "moving" <=> yielded < TotalYield]_vars
    /\ [][current_state = "waiting_to_move" =>
            \/ Unpause
            \/ /\ Abort \/ StepperMotorError \/ SpectrometerError
               /\ current_state' = "not_running"
            \/ /\ current_state' = "waiting_to_move"
               /\ hist' = hist
               /\ measurement_iter' = measurement_iter
               /\ yielded' = yielded
               /\ MovesIn(out') = 0
               /\ moveQueue' = moveQueue]_vars

C15_Witness ==
    /\ current_state = "waiting_to_move"
    /\ paused
    /\ out = << <<"unsubscribe", "_measuring_end", "">> >>
    /\ current_measurement_count = current_measurement.measurements
    /\ yielded < TotalYield
    /\ moveQueue = <<>>

(* C16: of the runners Script.run has created for one Script, at most one   *)
(* is in a state other than not_running at any time, also when run() is     *)
(* called before the previous run has returned to not_running.              *)
ActiveRunners ==
    (IF current_state # "not_running" THEN 1 ELSE 0)
    + Cardinality({i \in 1..Len(others) : others[i].current_state # "not_running"})

C16_OneActiveRunner == ActiveRunners <= 1

(* C17: once a ScriptIterator has signalled exhaustion every later next()   *)
(* signals exhaustion again and yields no Measurement, and current_repeat   *)
(* stays equal to repeats.                                                  *)
C17_ExhaustionIsFinal ==
    /\ [](exhausted =>
            /\ measurement_iter.current_repeat = script.repeats
            /\ ~ScriptIterator_next(script, measurement_iter).ok
            /\ ScriptIterator_next(script, measurement_iter).it = measurement_iter)
    /\ [][(IterNext /\ exhausted) =>
            /\ exhausted'
            /\ yielded' = yielded
            /\ current_measurement' = current_measurement
            /\ measurement_iter'.current_repeat = script.repeats]_vars
    /\ [][exhausted => exhausted']_vars

C17_Witness ==
    /\ exhausted
    /\ script.repeats > 1
    /\ Len(script.sequence) > 1
    /\ measurement_iter = [pos |-> Len(script.sequence),
                           current_repeat |-> script.repeats]
    /\ ~ScriptIterator_next(script, measurement_iter).ok

(* C18: parse_script fails only with ParseError: for every document that    *)
(* is malformed or violates the schema, also one whose top level is no      *)
(* mapping (an empty document, a list, a scalar), the outcome is ParseError *)
(* and nothing is returned; no other error escapes.                         *)
C18_OnlyParseError ==
    outcome # "none" =>
        /\ outcome \in {"ok", "ParseError"}
        /\ document.kind # "map" => outcome = "ParseError"
        /\ outcome = "ParseError" => script = NoScript

(* C19: parse_script rejects with ParseError every document whose repeats   *)
(* is less than 1 and every document whose sequence is empty, whatever its  *)
(* other keys hold.                                                         *)
C19_RejectsBadRepeatsOrEmptySequence ==
    (/\ outcome # "none"
     /\ document.kind = "map"
     /\ \/ document.repeats.t = "int" /\ document.repeats.n < 1
        \/ document.sequence.t = "list" /\ document.sequence.items = <<>>) =>
        /\ outcome = "ParseError"
        /\ script = NoScript

C19_Witness ==
    /\ outcome = "ParseError"
    /\ document.kind = "map"
    /\ ~document.extra
    /\ document.version = IntValue(1)
    /\ document.repeats = IntValue(0)
    /\ document.sequence.items =
           <<[angle |-> StrValue("nadir"), measurements |-> IntValue(1)]>>

C21_RoundTrip ==
    /\ document # NoDocument =>
           /\ document.repeats = edited.repeats
           /\ document.sequence.items = edited.sequence
    /\ outcome # "none" =>
           /\ outcome = "ok"
           /\ script.repeats = edited.repeats.n
           /\ Len(script.sequence) = Len(edited.sequence)
           /\ \A i \in 1..Len(edited.sequence) :
                  /\ script.sequence[i].angle = edited.sequence[i].angle.s
                  /\ script.sequence[i].measurements =
                         edited.sequence[i].measurements.n

C21_Witness ==
    /\ outcome = "ok"
    /\ edited.repeats = IntValue(2)
    /\ edited.sequence =
           <<[angle |-> FloatValue(90, "90.0"), measurements |-> IntValue(1)],
             [angle |-> StrValue("nadir"), measurements |-> IntValue(2)]>>
    /\ script = [repeats |-> 2,
                 sequence |-> <<[angle |-> "90.0", measurements |-> 1],
                                [angle |-> "nadir", measurements |-> 2]>>]

(* C22: after close() none of the handlers the device registered through    *)
(* subscribe() is attached to the message bus, and none becomes attached    *)
(* again afterwards.                                                        *)
C22_ClosedStaysDetached ==
    \A i \in Instances :
        devices[i].phase = "closed" => devices[i].attached = {}

(* The notifications of instance i in the log of the last step *)
Announcements(i) ==
    SelectSeq(sent, LAMBDA m : /\ m.instance = i
                               /\ m.kind \in {"device.after_opening",
                                              "device.opened"})

(* C23: a device that signals that it is open sends exactly two             *)
(* notifications: after_opening with the instance and the class name, then  *)
(* opened.                                                                  *)
C23_AfterOpeningThenOpened ==
    \A i \in Instances :
        Announcements(i) # <<>> =>
            Announcements(i) =
                <<Msg("device.after_opening", i, devices[i].type.class_name),
                  Msg("device.opened", i, "")>>

(* C24: signal_is_opened() on a device that is already open fails with an   *)
(* error, sends neither after_opening nor opened and attaches nothing; a    *)
(* device object announces itself at most once.                             *)
C24_SignalTwiceFails ==
    /\ [](\A i \in Instances : devices[i].nOpened <= 1)
    /\ [][\A i \in Instances :
            (/\ devices[i]._is_open
             /\ CountIn(sent', Msg("signal_is_opened", i, "")) > 0
             /\ devices'[i].type = devices[i].type
             /\ sent'[1].kind # "device.before_opening")
            => /\ CountIn(sent', Msg("device.error", i, "RuntimeError")) = 1
               /\ \A k \in 1..Len(sent') :
                      sent'[k].instance = i =>
                          sent'[k].kind \notin {"device.after_opening",
                                                "device.opened", "subscribe"}
               /\ devices'[i].attached = devices[i].attached
               /\ devices'[i].nOpened = devices[i].nOpened]_vars

C24_Witness ==
    \E i \in Instances :
        /\ devices[i]._is_open
        /\ devices[i].nOpened = 1
        /\ CountIn(sent, Msg("signal_is_opened", i, "")) = 1
        /\ CountIn(sent, Msg("device.error", i, "RuntimeError")) = 1

C28_ConnectedIffAfterOpening ==
    \A i \in Instances :
        _active_devices[i].state = "CONNECTED"
            <=> notes[i] = "device.after_opening"

(* C27: a request made with retry count n is attempted at most n + 1 times; *)
(* a failed reply makes a new attempt with one retry fewer while retries    *)
(* remain, and the network error is raised and reported only when a reply   *)
(* fails with 0 retries remaining; the first successful reply calls the     *)
(* callback exactly once and no further attempt is made.                    *)
C27_AtMostNPlusOneAttempts ==
    /\ [](/\ http.attempts <= http.n + 1
          /\ http.callbacks <= 1
          /\ http.awaiting =>
                 http.retries_remaining = http.n - (http.attempts - 1)
          /\ http.callbacks = 1 => ~http.awaiting
          /\ CountIn(http.errors, "RuntimeError") <= 1
          /\ CountIn(http.errors, "RuntimeError") = 1 =>
                 /\ http.attempts = http.n + 1
                 /\ http.callbacks = 0
                 /\ ~http.awaiting)
    /\ [][(http.awaiting /\ http' # http) =>
             CASE http'.reply = "error" /\ http.retries_remaining > 0 ->
                      /\ http'.awaiting
                      /\ http'.retries_remaining = http.retries_remaining - 1
                      /\ http'.attempts = http.attempts + 1
                      /\ http'.callbacks = http.callbacks
                      /\ http'.errors = http.errors
               [] http'.reply = "error" /\ http.retries_remaining = 0 ->
                      /\ ~http'.awaiting
                      /\ http'.attempts = http.attempts
                      /\ http'.callbacks = http.callbacks
                      /\ http'.errors = Append(http.errors, "RuntimeError")
               [] OTHER ->
                      /\ ~http'.awaiting
                      /\ http'.attempts = http.attempts
                      /\ http'.callbacks = http.callbacks + 1
                      /\ CountIn(http'.errors, "RuntimeError") = 0]_vars

C27_Witness ==
    /\ http.n = 2
    /\ http.attempts = 3
    /\ http.callbacks = 1
    /\ http.reply = "ok"
    /\ http.errors = <<>>

(* C29: a capture-complete notification received in measuring increments    *)
(* current_measurement_count by one; the runner then takes start_next_move  *)
(* iff the count equals the measurement's count and repeat_measuring        *)
(* otherwise; so the count stays between 0 and measurements and the runner  *)
(* goes on to the next move only with count = measurements.                 *)
C29_CountsEveryCapture ==
    /\ [](current_measurement # NoMeasurement =>
              /\ 0 <= current_measurement_count
              /\ current_measurement_count <= current_measurement.measurements)
    /\ [][(StatusConnected /\ current_state = "measuring") =>
             /\ Len(hist') > Len(hist)
             /\ hist'[Len(hist) + 1] =
                    IF current_measurement_count + 1 =
                           current_measurement.measurements
                    THEN "waiting_to_move" ELSE "waiting_to_measure"
             /\ current_measurement_count + 1 #
                    current_measurement.measurements =>
                    /\ current_state' = "waiting_to_measure"
                    /\ current_measurement' = current_measurement
                    /\ current_measurement_count' =
                           current_measurement_count + 1
                    /\ CountIn(out', CAPTURE) = IF paused THEN 0 ELSE 1]_vars
    /\ [][(current_state \in {"measuring", "waiting_to_move"}
              /\ current_state' = "moving") =>
             current_measurement.measurements =
                 current_measurement_count
                     + IF current_state = "measuring" THEN 1 ELSE 0]_vars

C29_Witness ==
    /\ current_state = "waiting_to_measure"
    /\ PreviousState = "measuring"
    /\ spectrometerStatus = "connected"
    /\ current_measurement.measurements = 2
    /\ current_measurement_count = 1
    /\ CountIn(out, CAPTURE) = 1

(* C30: in waiting_to_measure with the paused flag set the runner does not  *)
(* enter measuring and counts no capture, whatever the spectrometer         *)
(* reports; only unpause(), abort() or a device error end the wait.         *)
C30_PausedIgnoresSpectrometer ==
    [][(current_state = "waiting_to_measure" /\ paused) =>
          \/ Unpause
          \/ Abort
          \/ StepperMotorError
          \/ SpectrometerError
          \/ /\ current_state' = "waiting_to_measure"
             /\ paused'
             /\ current_measurement_count' = current_measurement_count]_vars

(* Where a handler whose log is o first did e *)
FirstIn(o, e) ==
    CHOOSE i \in 1..Len(o) : o[i] = e /\ \A j \in 1..(i - 1) : o[j] # e

(* C31 as stated: on a spectrometer error in a non-idle state the error     *)
(* message is shown before the return-to-nadir move and before              *)
(* "measure_script.end".                                                    *)
C31_MessageBeforeCleanup ==
    [][(SpectrometerError /\ current_state \in ActiveStates) =>
          /\ CountIn(out', SHOW_ERROR) = 1
          /\ CountIn(out', NADIR_MOVE) = 1
          /\ CountIn(out', SCRIPT_END) = 1
          /\ FirstIn(out', SHOW_ERROR) < FirstIn(out', NADIR_MOVE)
          /\ FirstIn(out', SHOW_ERROR) < FirstIn(out', SCRIPT_END)]_vars

(* C31 as amended: on a spectrometer error in a non-idle state the runner   *)
(* first reverts to not_running, with the return-to-nadir move and          *)
(* "measure_script.end", and the error message is shown last.               *)
C31_MessageAfterCleanup ==
    [][(SpectrometerError /\ current_state \in ActiveStates) =>
          /\ current_state' = "not_running"
          /\ CountIn(out', SHOW_ERROR) = 1
          /\ CountIn(out', NADIR_MOVE) = 1
          /\ CountIn(out', SCRIPT_END) = 1
          /\ FirstIn(out', NADIR_MOVE) < FirstIn(out', SHOW_ERROR)
          /\ FirstIn(out', SCRIPT_END) < FirstIn(out', SHOW_ERROR)
          /\ out'[Len(out')] = SHOW_ERROR]_vars

C31_Witness ==
    /\ current_state = "not_running"
    /\ PreviousState = "measuring"
    /\ Len(out) > 0
    /\ out[Len(out)] = SHOW_ERROR
    /\ CountIn(out, NADIR_MOVE) = 1
    /\ CountIn(out, SCRIPT_END) = 1

(* C32: if every move request is answered by move.end, every capture        *)
(* request by status.measuring and then status.connected, and every pause   *)
(* by an unpause, every started run returns to not_running.                 *)
C32_RunTerminates == (current_state # "not_running") ~> (current_state = "not_running")

C32_Witness ==
    /\ nBegin = 1
    /\ nEnd = 1
    /\ current_state = "not_running"
    /\ exhausted
    /\ disturbed
    /\ Entries("waiting_to_move") > 0
    /\ Entries("measuring") = script.repeats * SumCounts(script.sequence)

SCRIPT_BEGIN == <<"send", "measure_script.begin", "">>

(* C33: starting a run broadcasts "measure_script.begin" first, then        *)
(* "measure_script.start_moving", then dispatches the move to the angle of  *)
(* the first measurement, which is loaded with count 0; every entry into    *)
(* moving with measurements remaining loads the next measurement in         *)
(* iteration order, resets the count and targets its angle.                 *)
C33_EntryIntoMoving ==
    /\ [][StartMoving =>
            /\ out'[1] = SCRIPT_BEGIN
            /\ CountIn(out', SCRIPT_BEGIN) = 1
            /\ CountIn(out', START_MOVING) = 1
            /\ MovesIn(out') = 1
            /\ FirstIn(out', START_MOVING) + 1 = Len(out')
            /\ out'[Len(out')] =
                   <<"send", MOVE_BEGIN, script.sequence[1].angle>>
            /\ current_state' = "moving"
            /\ current_measurement' = script.sequence[1]
            /\ current_measurement_count' = 0]_vars
    /\ [][(hist' # hist /\ current_state' = "moving") =>
            /\ yielded' = yielded + 1
            /\ current_measurement' =
                   script.sequence[(yielded % Len(script.sequence)) + 1]
            /\ current_measurement_count' = 0
            /\ out'[Len(out')] =
                   <<"send", MOVE_BEGIN, current_measurement'.angle>>
            /\ out'[Len(out') - 1] = START_MOVING]_vars

C33_Witness ==
    /\ current_state = "moving"
    /\ yielded = 3
    /\ Len(script.sequence) = 2
    /\ script.sequence[1] # script.sequence[2]
    /\ current_measurement = script.sequence[1]
    /\ current_measurement_count = 0
    /\ out[Len(out)] = <<"send", MOVE_BEGIN, script.sequence[1].angle>>

(* The positions of the messages of one kind in a log of device messages *)
KindAt(log, kind) == {n \in 1..Len(log) : log[n].kind = kind}

(* C34: a handler subscribed before the device has opened is recorded but   *)
(* not attached; signal_is_opened attaches every recorded handler before    *)
(* the after_opening and opened notifications; a handler subscribed on an   *)
(* open device is attached at once; so a device that has not yet opened has *)
(* no handler on the bus.                                                   *)
C34_DeferredSubscription ==
    /\ [](\A i \in Instances :
             devices[i].phase # "none" /\ ~devices[i]._is_open
                 => devices[i].attached = {})
    /\ [][\A i \in Instances :
            /\ (\E h \in Handlers : Subscribe(i, h)) =>
                   /\ Len(devices'[i]._subscriptions) =
                          Len(devices[i]._subscriptions) + 1
                   /\ LET h == devices'[i]._subscriptions[
                                   Len(devices'[i]._subscriptions)]
                      IN  IF devices[i]._is_open
                          THEN /\ h.func \in devices'[i].attached
                               /\ sent' = <<Msg("subscribe", i, h.func)>>
                          ELSE /\ devices'[i].attached = {}
                               /\ sent' = <<>>
            /\ (~devices[i]._is_open /\ devices'[i]._is_open) =>
                   /\ devices'[i].attached =
                          {devices'[i]._subscriptions[k].func :
                               k \in 1..Len(devices'[i]._subscriptions)}
                   /\ Cardinality({n \in KindAt(sent', "subscribe") :
                                       sent'[n].instance = i}) =
                          Len(devices'[i]._subscriptions)
                   /\ \A n \in KindAt(sent', "subscribe"),
                         m \in KindAt(sent', "device.after_opening")
                                   \cup KindAt(sent', "device.opened") :
                          n < m]_vars

C34_Witness ==
    \E i \in Instances :
        /\ devices[i].type.async_open
        /\ devices[i]._is_open
        /\ Len(devices[i]._subscriptions) = 2
        /\ Cardinality(devices[i].attached) = 2
        /\ Cardinality(KindAt(sent, "subscribe")) = 2
        /\ KindAt(sent, "device.opened") # {}

(* C35: once the homing timeout has fired ("Timed out waiting for motor to  *)
(* move" was sent as an error) before the initial move completed, the       *)
(* ST10Controller does not announce itself as opened, whatever arrives      *)
(* later from the motor.                                                    *)
C35_TimedOutNeverOpens == ~(st10.timed_out /\ st10._is_open)

(* C39: each synchronous read of the ST10 controller returns the device's   *)
(* response to the command written just before it, never the magic string   *)
(* and never the late response to an earlier command whose read timed out.  *)
C39_ReadAnswersLastCommand ==
    \A k \in 1..Len(st10.reads) :
        st10.reads[k].response # NoResponse =>
            /\ st10.reads[k].response # _SEND_STRING_MAGIC
            /\ st10.reads[k].response.cmd = st10.reads[k].cmd

(* C36: the runner leaves moving for waiting_to_measure only when the move  *)
(* it dispatched for the loaded measurement has completed: the completed    *)
(* move is the one to the loaded angle and no earlier move request (the     *)
(* return to nadir of a previous run) was still unresolved.                 *)
C36_AdvancesOnOwnMoveOnly ==
    [][(current_state = "moving" /\ current_state' = "waiting_to_measure") =>
           /\ moveQueue = <<current_measurement.angle>>
           /\ moveQueue' = <<>>]_vars

(* The messages of instance i in a log of device messages *)
KindsOf(log, i) == {log[n].kind : n \in {m \in 1..Len(log) : log[m].instance = i}}

(* C37: once an asynchronously opening HTTP device has been closed it never *)
(* announces itself as opened, sends a status, attaches a handler or makes  *)
(* a further status request, even when the reply to the request that was in *)
(* flight at close() arrives.                                               *)
C37_ClosedDeviceStaysSilent ==
    [][\A i \in Instances :
           (/\ devices[i].phase = "closed"
            /\ devices[i].type.async_open
            /\ devices'[i].phase = "closed") =>
               /\ KindsOf(sent', i) \cap {"signal_is_opened", "subscribe",
                                          "device.after_opening",
                                          "device.opened", "status"} = {}
               /\ devices'[i]._is_open = devices[i]._is_open
               /\ devices'[i].attached = {}
               /\ "_on_reply_received" \in KindsOf(sent', i)
                      => ~devices'[i].pending]_vars

(* C38: ActiveDeviceManager handles the lifecycle notifications in any      *)
(* order without failing: an after_opening notification for an instance it  *)
(* does not track raises no error and does not make the instance connected. *)
C38_UntrackedAfterOpeningIsIgnored ==
    [][\A i \in Instances :
           (/\ _active_devices[i] = NotActive
            /\ "device.after_opening" \in KindsOf(sent', i)
            /\ "device.before_opening" \notin KindsOf(sent', i)) =>
               /\ "KeyError" \notin {sent'[n].arg : n \in 1..Len(sent')}
               /\ _active_devices'[i] = NotActive]_vars

(* C40: for one ScriptRunner the broadcasts "measure_script.begin" and      *)
(* "measure_script.end" alternate, starting with begin: the number of       *)
(* begins less the number of ends is 0 or 1, and it is 1 exactly while the  *)
(* runner is not in not_running.                                            *)
C40_BeginEndAlternate ==
    /\ [](/\ nBegin - nEnd \in {0, 1}
          /\ nBegin - nEnd = 1 <=> current_state # "not_running")
    /\ [][/\ CountIn(out', SCRIPT_BEGIN) = nBegin' - nBegin
          /\ CountIn(out', SCRIPT_END) = nEnd' - nEnd
          /\ nBegin' - nBegin <= 1
          /\ nEnd' - nEnd <= 1
          /\ (nBegin' > nBegin /\ nEnd' > nEnd) =>
                 /\ nBegin = nEnd
                 /\ FirstIn(out', SCRIPT_BEGIN) < FirstIn(out', SCRIPT_END)]_vars

C40_Witness ==
    /\ nBegin = 1
    /\ nEnd = 1
    /\ current_state = "not_running"
    /\ Len(hist) > 2
    /\ CountIn(out, SCRIPT_END) = 1
    /\ CountIn(out, SCRIPT_BEGIN) = 0

====
